---------------------------- MODULE Spec2Model ----------------------------
(***************************************************************************)
(* A model of two pieces of the dl4seq / AI4Water toolkit:                 *)
(*                                                                         *)
(*   - make_3d_batches (src/dl4seq/utils/utils.py), the windowing of a     *)
(*     2-D table into (x, prev_y, y) examples;                             *)
(*   - HyperOpt (src/dl4seq/hyper_opt.py), the hyper-parameter search      *)
(*     driver: construction, grid search, random search, eval_sequence.    *)
(*                                                                         *)
(* SpecBatches calls make_3d_batches on bounded inputs; SpecHyperOpt       *)
(* constructs a HyperOpt object and runs its fit().                        *)
(***************************************************************************)
EXTENDS Integers, Sequences, FiniteSets, TLC

VARIABLES
    args,       \* the arguments of the pending/finished call of make_3d_batches
    ret,        \* "pending", or the outcome of the call (returned arrays or raised error)
    call,       \* the arguments HyperOpt(...) is constructed with
    pc,         \* where the HyperOpt object is: in __init__, before fit(), inside fit()
    fit,        \* the strategy __init__ bound to self.fit (or the wrapped search object)
    param_space, \* self.param_space, as translated by its setter
    param_grid, \* self.param_grid: the list of combinations to evaluate
    idx,        \* idx of the loop of eval_sequence
    results,    \* self.results: an insertion-ordered dict, key -> parameters
    calls,      \* how often the objective was evaluated
    evals,      \* the combinations the trials evaluated, in order
    error,      \* the exception that ended __init__ or fit(), "" when none
    artifacts,  \* what fit() has written: eval_results.json, convergence.png
    run,        \* 1 for the first search of the process, 2 for the second
    np_random,  \* the state of numpy's global random generator
    first_grid, \* param_grid of the first search, kept for the second
    best_eval,  \* how eval_with_best called the objective, <<>> when it did not
    gpmin_results, \* self.gpmin_results: x_iters and func_vals of gp_minimize
    trials,     \* the Trials object of fmin: the results of the tpe trials
    decl,       \* the dimension constructor calls the caller writes, in order
    dimensions, \* the dimension objects constructed so far
    translation, \* what the param_space setter made of the dimensions
    lookup,     \* the attribute lookup on the HyperOpt object that is under way
    imputer,    \* the Imputation object: _dtype, data, method, imputer_args
    imputed,    \* the outcome of the last call of the Imputation object
    plotted     \* the call of plot_metrics_between and the figures it has drawn

bvars == <<args, ret>>

hvars == <<call, pc, fit, param_space, param_grid, idx, results, calls, evals, error,
           artifacts, run, np_random, first_grid, best_eval>>

lvars == <<gpmin_results, trials>>

dvars == <<decl, dimensions, translation>>

ovars == <<lookup, imputer, imputed, plotted>>

vars == <<bvars, hvars, lvars, dvars, ovars>>

(***************************************************************************)
(* Bounds of the windowing model.                                          *)
(***************************************************************************)
MaxRows == 7
MaxFeatures == 2
MaxLookback == 2
MaxStep == 2
MaxOffset == 1
MaxLen == 2

\* Python's None for the optional integer arguments num_inputs / num_outputs
\* (which are otherwise drawn from 0..features).
None == -1

(***************************************************************************)
(* numpy arrays.  A 2-D array is [nr, nc, a] with a a function on          *)
(* (0..nr-1) \X (0..nc-1): the shape is kept beside the cells so that an   *)
(* array with a zero-length axis still has a shape.                        *)
(***************************************************************************)
Max(p, q) == IF p >= q THEN p ELSE q
Min(p, q) == IF p <= q THEN p ELSE q

\* Cell (r, c) of the table: np.arange(samples*features).reshape(-1, samples)
\* .transpose(), i.e. column c holds c*samples .. (c+1)*samples - 1.  Every cell
\* holds a different value, so a value identifies the cell it was read from.
Data(samples, r, c) == c * samples + r

\* Python's normalisation of one bound of a slice with a positive step over an axis
\* of length n: a negative bound counts from the end, then the bound is clamped.
SliceBound(n, b) == IF b < 0 THEN Max(b + n, 0) ELSE Min(b, n)

\* The indices selected by axis[st:en:step] (step >= 1) on an axis of length n,
\* in order: what data[st:en:step] reads.  A slice never fails: it is cut at n.
PySlice(n, st, en, step) ==
    LET start == SliceBound(n, st)
        stop  == SliceBound(n, en)
        len   == IF stop > start THEN (stop - start + step - 1) \div step ELSE 0
    IN  [k \in 1..len |-> start + (k - 1) * step]

\* The indices the slice st:en:step asks for, before it is cut to the axis.
Requested(st, en, step) ==
    { st + k * step : k \in { kk \in 0..Max(en - st, 0) : st + kk * step < en } }

\* data[rows, cols] for index sequences rows and cols.
Take(samples, rows, cols) ==
    [nr |-> Len(rows), nc |-> Len(cols),
     a  |-> [p \in (0..Len(rows) - 1) \X (0..Len(cols) - 1) |->
                Data(samples, rows[p[1] + 1], cols[p[2] + 1])]]

\* ndarray.T of a 2-D array.
NoTranspose(m) == m

Transpose(m) ==
    [nr |-> m.nc, nc |-> m.nr,
     a  |-> [p \in (0..m.nc - 1) \X (0..m.nr - 1) |-> m.a[<<p[2], p[1]>>]]]

\* len(range(k)).
RangeLen(k) == IF k > 0 THEN k ELSE 0

\* np.stack / np.array of a list of equally shaped 2-D arrays is possible only
\* when the shapes agree.
SameShape(xs) ==
    \A p, q \in 1..Len(xs) : xs[p].nr = xs[q].nr /\ xs[p].nc = xs[q].nc

\* An error raised before the loop over the examples has read any row.
Raised(e) == [status |-> "raised", error |-> e]

\* An error raised after the loop, which asked for the rows `rows` of the data.
RaisedAfterLoop(e, rows) == [status |-> "raised", error |-> e, rows |-> rows]

(***************************************************************************)
(* make_3d_batches, src/dl4seq/utils/utils.py:978-1134.                    *)
(***************************************************************************)

\* The argument of range() in the loop over the examples (line 1113).
ExamplesRangeNoLen(samples, lookback_steps, input_steps, forecast_step, forecast_len) ==
    samples - lookback_steps * input_steps + 1 - forecast_step + 1

ExamplesRangeOffByOne(samples, lookback_steps, input_steps, forecast_step, forecast_len) ==
    samples - lookback_steps * input_steps - forecast_step - forecast_len + 1

ExamplesRange(samples, lookback_steps, input_steps, forecast_step, forecast_len) ==
    samples - lookback_steps * input_steps + 1 - forecast_step - forecast_len + 1

\* sty of example i (line 1120): the first row of the target window.
TargetStartNoStepBack(i, lookback_steps, input_steps, forecast_step) ==
    i + lookback_steps * input_steps + forecast_step

TargetStart(i, lookback_steps, input_steps, forecast_step) ==
    i + lookback_steps * input_steps + forecast_step - input_steps

\* x_example of example i (lines 1114-1115).
XExample(samples, features, num_outputs, i, lookback_steps, input_steps) ==
    Take(samples,
         PySlice(samples, i, i + lookback_steps * input_steps, input_steps),
         PySlice(features, 0, features - num_outputs, 1))

\* y_data of example i, the previous outputs (lines 1117-1118).
PrevYExample(samples, features, num_outputs, i, lookback_steps, input_steps) ==
    Take(samples,
         PySlice(samples, i, i + (lookback_steps - 1) * input_steps, input_steps),
         PySlice(features, features - num_outputs, features, 1))

\* target of example i (lines 1120-1122), not yet transposed.
Target(samples, features, num_outputs, i, lookback_steps, input_steps, forecast_step, forecast_len) ==
    LET sty == TargetStart(i, lookback_steps, input_steps, forecast_step)
    IN  Take(samples,
             PySlice(samples, sty, sty + forecast_len, 1),
             PySlice(features, features - num_outputs, features, 1))

\* The rows of data that example i asks for in its three slices.
RowsOfExample(i, lookback_steps, input_steps, forecast_step, forecast_len) ==
    LET sty == TargetStart(i, lookback_steps, input_steps, forecast_step)
    IN  Requested(i, i + lookback_steps * input_steps, input_steps)
        \cup Requested(i, i + (lookback_steps - 1) * input_steps, input_steps)
        \cup Requested(sty, sty + forecast_len, 1)

\* num_outputs as used by the loop (lines 1096-1097).
InferOutputsWrong(features, num_inputs, num_outputs) ==
    IF num_outputs = None THEN num_inputs ELSE num_outputs

InferOutputs(features, num_inputs, num_outputs) ==
    IF num_outputs = None THEN features - num_inputs ELSE num_outputs

\* num_inputs as checked by the assertion (lines 1099-1100), given the resolved
\* num_outputs.
InferInputs(features, num_inputs, outs) ==
    IF num_inputs = None THEN features - outs ELSE num_inputs

\* The guard of line 1105.
TooFewRowsOnlyEmpty(samples) == samples < 1

TooFewRows(samples) == samples <= 1

\* The whole call: the outcome of make_3d_batches(**c).
make_3d_batches(c) ==
    IF c.data_kind \notin {"ndarray", "DataFrame"} THEN Raised("TypeError")
    ELSE IF c.num_inputs = None /\ c.num_outputs = None THEN Raised("ValueError: either")
    ELSE
      LET outs == InferOutputs(c.features, c.num_inputs, c.num_outputs)
          ins  == InferInputs(c.features, c.num_inputs, outs)
      IN
      IF ins + outs # c.features THEN Raised("AssertionError")
      ELSE IF TooFewRows(c.samples) THEN Raised("ValueError: can not create batches")
      ELSE
        LET n == RangeLen(ExamplesRange(c.samples, c.lookback_steps, c.input_steps,
                                        c.forecast_step, c.forecast_len))
            x == [k \in 1..n |-> XExample(c.samples, c.features, outs, k - 1,
                                          c.lookback_steps, c.input_steps)]
            prev_y == [k \in 1..n |-> PrevYExample(c.samples, c.features, outs, k - 1,
                                                   c.lookback_steps, c.input_steps)]
            y == [k \in 1..n |-> Target(c.samples, c.features, outs, k - 1,
                                        c.lookback_steps, c.input_steps,
                                        c.forecast_step, c.forecast_len)]
        \* np.stack(x) needs at least one array, and arrays of one shape
            rows == UNION { RowsOfExample(k - 1, c.lookback_steps, c.input_steps,
                                          c.forecast_step, c.forecast_len) : k \in 1..n }
        IN
        \* np.stack(x) needs at least one array, and arrays of one shape
        IF n = 0 \/ ~SameShape(x) THEN RaisedAfterLoop("ValueError: stack", rows)
        \* np.array(..., dtype=float32) of arrays of different shapes
        ELSE IF ~SameShape(prev_y) \/ ~SameShape(y)
             THEN RaisedAfterLoop("ValueError: ragged", rows)
        ELSE [status |-> "returned",
              x      |-> x,
              prev_y |-> prev_y,
              y      |-> [k \in 1..n |-> Transpose(y[k])],
              rows   |-> rows]

\* The calls that are made: every combination inside the bounds, and the call of
\* the docstring (lines 1069-1072).
DocExample ==
    [data_kind |-> "ndarray", samples |-> 50, features |-> 5,
     num_inputs |-> None, num_outputs |-> 2,
     lookback_steps |-> 4, input_steps |-> 2, forecast_step |-> 2, forecast_len |-> 4]

BatchCalls ==
    { c \in [data_kind : {"ndarray", "DataFrame", "list"},
             samples : 0..MaxRows,
             features : 1..MaxFeatures,
             num_inputs : {None} \cup (0..MaxFeatures),
             num_outputs : {None} \cup (0..MaxFeatures),
             lookback_steps : 1..MaxLookback,
             input_steps : 1..MaxStep,
             forecast_step : 0..MaxOffset,
             forecast_len : 1..MaxLen] :
        /\ c.num_inputs <= c.features
        /\ c.num_outputs <= c.features }
    \cup {DocExample}

Pending == [status |-> "pending"]

\* No HyperOpt object exists while make_3d_batches is looked at.
HyperOptIdle ==
    /\ call = [algorithm |-> "none"]
    /\ pc = "idle"
    /\ fit = "unset"
    /\ param_space = <<>>
    /\ param_grid = <<>>
    /\ idx = 0
    /\ results = <<>>
    /\ calls = 0
    /\ evals = <<>>
    /\ error = ""
    /\ artifacts = [eval_results |-> <<>>, written |-> FALSE, convergence |-> FALSE,
                    gp_parameters |-> FALSE, trials_json |-> FALSE]
    /\ run = 1
    /\ np_random = 0
    /\ first_grid = <<>>
    /\ best_eval = <<>>
    /\ gpmin_results = <<>>
    /\ trials = <<>>

\* No dimension has been constructed, no space translated.
NoTranslation == [algorithm |-> "none", ok |-> FALSE, error |-> "", space |-> <<>>]

DimensionsIdle ==
    /\ decl = <<>>
    /\ dimensions = <<>>
    /\ translation = NoTranslation

\* No attribute is looked up, no Imputation object exists, no metrics are
\* plotted.
NoLookup == [item |-> "", depth |-> 0, outcome |-> ""]

NoImputer == [dtype |-> "", data |-> "", method |-> "", imputer_args |-> ""]

NoCall == [status |-> "", kind |-> "", method |-> "", kwargs |-> "", nth |-> 0]

NoPlot == [errors |-> <<>>, max_metrics_per_fig |-> 0, zero_to_one |-> <<>>, points |-> <<>>,
           pos |-> 0, st |-> 0, figures |-> <<>>]

OthersIdle ==
    /\ lookup = NoLookup
    /\ imputer = NoImputer
    /\ imputed = NoCall
    /\ plotted = NoPlot

InitBatches ==
    /\ args \in BatchCalls
    /\ ret = Pending
    /\ HyperOptIdle
    /\ DimensionsIdle
    /\ OthersIdle

\* The call returns its three arrays.
CallReturns ==
    /\ ret = Pending
    /\ make_3d_batches(args).status = "returned"
    /\ ret' = make_3d_batches(args)
    /\ UNCHANGED <<args, hvars, lvars, dvars, ovars>>

\* The call raises.
CallRaises ==
    /\ ret = Pending
    /\ make_3d_batches(args).status = "raised"
    /\ ret' = make_3d_batches(args)
    /\ UNCHANGED <<args, hvars, lvars, dvars, ovars>>

NextBatches == CallReturns \/ CallRaises

SpecBatches == InitBatches /\ [][NextBatches]_vars

(***************************************************************************)
(* Claims about make_3d_batches.                                           *)
(***************************************************************************)
Finished == ret.status # "pending"

\* The call passes the checks of its arguments (lines 1084-1103): an array or a
\* data frame, at least one of num_inputs / num_outputs, and a split that adds up.
ValidSplit ==
    /\ args.data_kind \in {"ndarray", "DataFrame"}
    /\ ~(args.num_inputs = None /\ args.num_outputs = None)
    /\ (args.num_inputs # None /\ args.num_outputs # None
          => args.num_inputs + args.num_outputs = args.features)

\* numOutputs of the claims: the one given, or the features left by numInputs.
NumOut == IF args.num_outputs = None THEN args.features - args.num_inputs
          ELSE args.num_outputs

\* N - L*S + 1 - O - FL + 1 of the claims.
ExampleCount ==
    args.samples - args.lookback_steps * args.input_steps + 1
        - args.forecast_step - args.forecast_len + 1

\* A 2-D array written as a sequence of rows.
ArrayOf(rws) ==
    [nr |-> Len(rws), nc |-> Len(rws[1]),
     a  |-> [p \in (0..Len(rws) - 1) \X (0..Len(rws[1]) - 1) |-> rws[p[1] + 1][p[2] + 1]]]

\* C1: a valid call on N >= 2 rows for which the example count N-L*S+1-O-FL+1 is
\* at least 1 returns exactly that many examples, with X of shape
\* (examples, L, F-numOutputs), Yprev of shape (examples, L-1, numOutputs) and
\* Y of shape (examples, numOutputs, FL).
C1_Shapes ==
    (Finished /\ ValidSplit /\ args.samples >= 2 /\ ExampleCount >= 1)
    => /\ ret.status = "returned"
       /\ Len(ret.x) = ExampleCount
       /\ Len(ret.prev_y) = ExampleCount
       /\ Len(ret.y) = ExampleCount
       /\ \A k \in 1..ExampleCount :
            /\ ret.x[k].nr = args.lookback_steps
            /\ ret.x[k].nc = args.features - NumOut
            /\ ret.prev_y[k].nr = args.lookback_steps - 1
            /\ ret.prev_y[k].nc = NumOut
            /\ ret.y[k].nr = NumOut
            /\ ret.y[k].nc = args.forecast_len

C1_Witness ==
    /\ ret.status = "returned"
    /\ ValidSplit
    /\ Len(ret.x) = 2
    /\ args.input_steps = 2 /\ args.lookback_steps = 2
    /\ args.forecast_step = 1 /\ args.forecast_len = 2
    /\ NumOut = 1 /\ args.features = 2

\* C2: in every produced example i, X[i][j][c] = data[i+j*S][c],
\* Yprev[i][j][o] = data[i+j*S][F-numOutputs+o] and
\* Y[i][o][k] = data[i+L*S+O-S+k][F-numOutputs+o]; for the docstring's call
\* X[0] and Y[0] are the arrays the docstring prints.
C2_Content ==
    ret.status = "returned"
    => /\ \A i \in 0..Len(ret.x) - 1 :
            /\ ret.x[i + 1].nr = args.lookback_steps
            /\ ret.x[i + 1].nc = args.features - NumOut
            /\ \A j \in 0..args.lookback_steps - 1 : \A c \in 0..args.features - NumOut - 1 :
                 ret.x[i + 1].a[<<j, c>>] = Data(args.samples, i + j * args.input_steps, c)
            /\ ret.prev_y[i + 1].nr = args.lookback_steps - 1
            /\ ret.prev_y[i + 1].nc = NumOut
            /\ \A j \in 0..args.lookback_steps - 2 : \A o \in 0..NumOut - 1 :
                 ret.prev_y[i + 1].a[<<j, o>>] =
                     Data(args.samples, i + j * args.input_steps, args.features - NumOut + o)
            /\ ret.y[i + 1].nr = NumOut
            /\ ret.y[i + 1].nc = args.forecast_len
            /\ \A o \in 0..NumOut - 1 : \A k \in 0..args.forecast_len - 1 :
                 ret.y[i + 1].a[<<o, k>>] =
                     Data(args.samples,
                          i + args.lookback_steps * args.input_steps + args.forecast_step
                            - args.input_steps + k,
                          args.features - NumOut + o)
       /\ args = DocExample
            => /\ ret.x[1] = ArrayOf(<< <<0, 50, 100>>, <<2, 52, 102>>,
                                        <<4, 54, 104>>, <<6, 56, 106>> >>)
               /\ ret.y[1] = ArrayOf(<< <<158, 159, 160, 161>>, <<208, 209, 210, 211>> >>)

C2_Witness ==
    /\ ret.status = "returned"
    /\ args = DocExample
    /\ Len(ret.x) = 38

\* C3: every row that an example asks for, for X, Yprev or Y, is a row of the
\* data: the slices of the loop are never cut at the end of the data.
C3_RowsInside ==
    (Finished /\ "rows" \in DOMAIN ret)
    => /\ ret.rows \subseteq 0..args.samples - 1
       /\ ret.status = "returned"
            => \A k \in 1..Len(ret.x) :
                 /\ ret.x[k].nr = args.lookback_steps
                 /\ ret.prev_y[k].nr = args.lookback_steps - 1
                 /\ ret.y[k].nc = args.forecast_len

C3_Witness ==
    /\ ret.status = "returned"
    /\ args.samples = MaxRows
    /\ ret.rows = 0..args.samples - 1
    /\ args.input_steps = 1 /\ args.forecast_len = 2 /\ args.forecast_step = 1

\* C4: the call raises whenever the data has at most one row and whenever the
\* example count is zero or negative; arrays that are returned are never empty.
C4_NoEmptyResult ==
    Finished
    => /\ (args.samples <= 1 \/ ExampleCount <= 0) => ret.status = "raised"
       /\ ret.status = "returned"
            => Len(ret.x) >= 1 /\ Len(ret.prev_y) >= 1 /\ Len(ret.y) >= 1

C4_Witness ==
    /\ ret.status = "raised"
    /\ ValidSplit
    /\ args.samples >= 2
    /\ ExampleCount <= 0
    /\ ret.error = "ValueError: stack"

\* The least number of rows for one example: the N with example count 1.
MinRows ==
    args.lookback_steps * args.input_steps + args.forecast_step + args.forecast_len - 1

\* C5 as stated: on exactly the least number of rows the call returns exactly one
\* example, and on one row it raises.
C5_Original ==
    (Finished /\ ValidSplit)
    => /\ args.samples = MinRows => (ret.status = "returned" /\ Len(ret.x) = 1)
       /\ args.samples = 1 => ret.status = "raised"

\* C5, amended: on exactly the least number of rows, when that number is at
\* least 2, the call returns exactly one example; on one row it raises, also when
\* one row is that least number (L = S = FL = 1, O = 0).
C5_MinRows ==
    (Finished /\ ValidSplit)
    => /\ (args.samples = MinRows /\ args.samples >= 2)
            => (ret.status = "returned" /\ Len(ret.x) = 1 /\ Len(ret.y) = 1)
       /\ args.samples = 1 => ret.status = "raised"

C5_Witness ==
    /\ ret.status = "returned"
    /\ ValidSplit
    /\ args.samples = MinRows
    /\ args.samples = 6
    /\ Len(ret.x) = 1

\* C6: with neither num_inputs nor num_outputs the call fails; with one of them
\* the other is the features left over; with both and a sum that is not the
\* number of features the call fails before it builds a window.
C6_Split ==
    (Finished /\ args.data_kind \in {"ndarray", "DataFrame"})
    => /\ (args.num_inputs = None /\ args.num_outputs = None)
            => (ret.status = "raised" /\ ret.error = "ValueError: either")
       /\ (args.num_inputs = None) # (args.num_outputs = None)
            => /\ ret.status = "raised" => ret.error # "AssertionError"
               /\ ret.status = "returned"
                    => /\ ret.x[1].nc = args.features - NumOut
                       /\ ret.y[1].nr = NumOut
                       /\ ret.prev_y[1].nc = NumOut
       /\ (args.num_inputs # None /\ args.num_outputs # None
             /\ args.num_inputs + args.num_outputs # args.features)
            => (ret.status = "raised" /\ ret.error = "AssertionError"
                  /\ "rows" \notin DOMAIN ret)

C6_Witness ==
    /\ ret.status = "returned"
    /\ args.num_outputs = None
    /\ args.num_inputs = 1
    /\ args.features = 2
    /\ ret.y[1].nr = 1

(***************************************************************************)
(* HyperOpt, src/dl4seq/hyper_opt.py.                                      *)
(***************************************************************************)

\* Bounds of the search model: the longest grid of one dimension, the largest
\* number of iterations asked for, and the longest grid of the one wide space
\* (a search of more than ten trials).
MaxGrid == 2
MaxIter == 2
MaxWide == 4

\* The names dimensions are given, and their order under sorted().
Names == {"a", "b", "c"}
NameOrder == <<"a", "b", "c">>
Rank(n) == CHOOSE i \in 1..Len(NameOrder) : NameOrder[i] = n

Range(f) == { f[i] : i \in DOMAIN f }

Reverse(q) == [i \in 1..Len(q) |-> q[Len(q) + 1 - i]]

RemoveAt(q, j) == [i \in 1..Len(q) - 1 |-> IF i < j THEN q[i] ELSE q[i + 1]]

\* The grid of the d-th declared dimension when it has k values: 9, 10, ... for
\* the first, 19, 20, ... for the second.  The values of different dimensions
\* differ, so a value tells which dimension it belongs to and where in the grid
\* it stands.
GridOf(d, k) == [j \in 1..k |-> 10 * d + j - 2]
DimOf(v) == (v + 2) \div 10
IndexOf(v) == (v + 2) % 10

\* A parameter space as the caller writes it: a list of dimensions (Real, Integer
\* or Categorical with a grid), each with its own name.  One or two dimensions
\* take any names in any order; three are declared in sorted order or with the
\* last name first.
NameLists ==
    { ns \in UNION { [1..n -> Names] : n \in 1..2 } :
        \A p, q \in DOMAIN ns : ns[p] = ns[q] => p = q }
    \cup { <<"a", "b", "c">>, <<"c", "a", "b">> }

\* Two dimensions with grids of MaxWide and MaxWide - 1 values.
WideSpaces ==
    { [d \in 1..2 |-> [name |-> ns[d], grid |-> GridOf(d, MaxWide + 1 - d)]] :
        ns \in {<<"a", "b">>, <<"b", "a">>} }

ParamSpaces ==
    UNION { { [d \in 1..Len(ns) |-> [name |-> ns[d], grid |-> GridOf(d, sz[d])]] :
                sz \in [1..Len(ns) -> 1..MaxGrid] } : ns \in NameLists }
    \cup WideSpaces

(***************************************************************************)
(* Insertion-ordered dicts: sequences of [key, val] with distinct keys.    *)
(***************************************************************************)
HasKey(d, k) == \E i \in DOMAIN d : d[i].key = k

\* d[k] = v: a new key is appended, an old key keeps its place.
DictSet(d, k, v) ==
    IF HasKey(d, k)
    THEN [i \in DOMAIN d |-> IF d[i].key = k THEN [key |-> k, val |-> v] ELSE d[i]]
    ELSE Append(d, [key |-> k, val |-> v])

DictGet(d, k) == (CHOOSE e \in Range(d) : e.key = k).val

\* sorted(d.items()) of a dict keyed by names.
SortedItems(d) ==
    [i \in 1..Len(d) |->
        CHOOSE e \in Range(d) :
            Cardinality({ f \in Range(d) : Rank(f.key) < Rank(e.key) }) = i - 1]

(***************************************************************************)
(* The param_space setter, lines 437-481.                                  *)
(***************************************************************************)
\* lines 459-463: {_space.name: _space.grid for _space in x}
RECURSIVE GridDict(_)
GridDict(x) ==
    IF x = <<>> THEN <<>>
    ELSE DictSet(GridDict(SubSeq(x, 1, Len(x) - 1)), x[Len(x)].name, x[Len(x)].grid)

\* as_hp() of a dimension, lines 79-80 and 127-128: a uniform distribution
\* between low = grid[0] and high = grid[-1] (lines 50-54).
AsHp(dim) ==
    [label |-> dim.name, low |-> dim.grid[1], high |-> dim.grid[Len(dim.grid)]]

\* lines 467-471: {space.name: space.as_hp() for space in x}
RECURSIVE HpDict(_)
HpDict(x) ==
    IF x = <<>> THEN <<>>
    ELSE DictSet(HpDict(SubSeq(x, 1, Len(x) - 1)), x[Len(x)].name, AsHp(x[Len(x)]))

\* The setter applied to a list of dimensions: the translated space, or the
\* ValueError of line 479.
ParamSpaceSetter(algorithm, x) ==
    IF algorithm = "bayes" THEN [ok |-> TRUE, space |-> x]
    ELSE IF algorithm \in {"random", "grid"} THEN [ok |-> TRUE, space |-> GridDict(x)]
    ELSE IF algorithm = "tpe" THEN [ok |-> TRUE, space |-> HpDict(x)]
    ELSE [ok |-> FALSE, space |-> <<>>]

(***************************************************************************)
(* sklearn's ParameterGrid and ParameterSampler, as called at lines 718    *)
(* and 725.                                                                *)
(***************************************************************************)
RECURSIVE SizeFrom(_, _)
\* The product of the grid lengths of items[j], items[j+1], ...
SizeFrom(items, j) ==
    IF j > Len(items) THEN 1 ELSE Len(items[j].val) * SizeFrom(items, j + 1)

\* The k-th combination (k from 0) of itertools.product over the sorted items:
\* the last key varies fastest.
ComboAt(items, k) ==
    [j \in 1..Len(items) |->
        [name |-> items[j].key,
         val  |-> items[j].val[((k \div SizeFrom(items, j + 1)) % Len(items[j].val)) + 1]]]

RECURSIVE ShortestFrom(_, _)
ShortestFrom(items, j) ==
    IF j = Len(items) THEN Len(items[j].val)
    ELSE Min(Len(items[j].val), ShortestFrom(items, j + 1))

\* A grid that pairs the values up (zip) instead of crossing them (product).
ParameterGridZip(space) ==
    LET items == SortedItems(space)
    IN  [k \in 1..ShortestFrom(items, 1) |->
            [j \in 1..Len(items) |-> [name |-> items[j].key, val |-> items[j].val[k]]]]

\* list(ParameterGrid(space)): every combination, keys in sorted order.
ParameterGrid(space) ==
    LET items == SortedItems(space)
    IN  [k \in 1..SizeFrom(items, 1) |-> ComboAt(items, k - 1)]

\* ParameterGrid(space)[ind]: __getitem__ builds the dict over the keys in
\* reverse sorted order.
ParameterGridItem(space, ind) == Reverse(ComboAt(SortedItems(space), ind))

\* np.random.RandomState(seed) and one step of the generator.  The generator is
\* a stand-in for the Mersenne twister: a deterministic function of its state.
RandomState(seed) == seed % 64
RngNext(st) == (13 * st + 7) % 64
RngDraw(st, n) == (st \div 8) % n

RECURSIVE SampleWithoutReplacement(_, _, _)
\* sample_without_replacement: k different members of pool, drawn with the
\* generator in state st.
SampleWithoutReplacement(pool, k, st) ==
    IF k = 0 THEN <<>>
    ELSE LET s1 == RngNext(st)
             j  == RngDraw(s1, Len(pool)) + 1
         IN  <<pool[j]>> \o SampleWithoutReplacement(RemoveAt(pool, j), k - 1, s1)

RECURSIVE SampleWithReplacement(_, _, _)
SampleWithReplacement(pool, k, st) ==
    IF k = 0 THEN <<>>
    ELSE LET s1 == RngNext(st)
             j  == RngDraw(s1, Len(pool)) + 1
         IN  <<pool[j]>> \o SampleWithReplacement(pool, k - 1, s1)

\* A sampler that draws every iteration from the whole grid.
ParameterSamplerRepeating(space, n_iter, st) ==
    LET size == SizeFrom(SortedItems(space), 1)
        inds == SampleWithReplacement([i \in 1..size |-> i - 1], n_iter, st)
    IN  [t \in 1..n_iter |-> ParameterGridItem(space, inds[t])]

\* list(ParameterSampler(space, n_iter, random_state)) for a space of lists: the
\* combinations are sampled from the grid without replacement, and a grid with
\* fewer than n_iter combinations is sampled whole (with a warning).
ParameterSampler(space, n_iter, st) ==
    LET size == SizeFrom(SortedItems(space), 1)
        n    == Min(n_iter, size)
        inds == SampleWithoutReplacement([i \in 1..size |-> i - 1], n, st)
    IN  [t \in 1..n |-> ParameterGridItem(space, inds[t])]

(***************************************************************************)
(* Scores.  A score is a float, kept as sign, whole part and fraction in    *)
(* units of 1e-9: [neg, i, f] stands for (-1)^neg * (i + f * 1e-9).  The   *)
(* field special is "" for a finite float, "nan" for NaN and "inf" for an  *)
(* infinity of the sign neg.                                               *)
(***************************************************************************)
RECURSIVE Pow10(_)
Pow10(n) == IF n = 0 THEN 1 ELSE 10 * Pow10(n - 1)

\* float(n) for an integer n.
FloatOf(n) == [neg |-> n < 0, i |-> IF n < 0 THEN -n ELSE n, f |-> 0, special |-> ""]

\* float('nan'), float('inf') and float('-inf').
NaN == [neg |-> FALSE, i |-> 0, f |-> 0, special |-> "nan"]
Inf == [neg |-> FALSE, i |-> 0, f |-> 0, special |-> "inf"]
NegInf == [neg |-> TRUE, i |-> 0, f |-> 0, special |-> "inf"]

IsFinite(x) == x.special = ""

\* round(x, nd) for 0 <= nd <= 9: to the nearest multiple of 10^-nd, a tie to
\* the even one; NaN and the infinities are returned as they are.
NoRound(x, nd) == x

Round(x, nd) ==
    LET unit == Pow10(9 - nd)
        q    == x.f \div unit
        r    == x.f % unit
        up   == 2 * r > unit \/ (2 * r = unit /\ q % 2 = 1)
        f2   == (IF up THEN q + 1 ELSE q) * unit
    IN  IF ~IsFinite(x) THEN x
        ELSE IF f2 = Pow10(9) THEN [x EXCEPT !.i = x.i + 1, !.f = 0]
        ELSE [x EXCEPT !.f = f2]

\* Characters are kept as their code points, which is what str comparison
\* compares: '-' 45, '.' 46, '0'..'9' 48..57, '_' 95, 'e' 101.
RECURSIVE Digits(_)
\* str(n) for an integer n >= 0.
Digits(n) == IF n < 10 THEN <<48 + n>> ELSE Append(Digits(n \div 10), 48 + (n % 10))

RECURSIVE StripZeros(_)
\* A digit string without its trailing '0's.
StripZeros(ds) ==
    IF ds # <<>> /\ ds[Len(ds)] = 48 THEN StripZeros(SubSeq(ds, 1, Len(ds) - 1)) ELSE ds

\* The nine digits of a fraction f.
FracDigits(f) == [k \in 1..9 |-> 48 + ((f \div Pow10(9 - k)) % 10)]

\* repr(x) / str(x) of a float: positional notation from 1e-4 on, scientific
\* notation below it, 'nan', 'inf' and '-inf' ('a' 97, 'f' 102, 'i' 105,
\* 'n' 110).
FloatRepr(x) ==
    LET sign == IF x.neg THEN <<45>> ELSE <<>>
        body ==
          IF x.special = "nan" THEN <<110, 97, 110>>
          ELSE IF x.special = "inf" THEN <<105, 110, 102>>
          ELSE IF x.i = 0 /\ x.f > 0 /\ x.f < Pow10(5)
          THEN LET sig == StripZeros(Digits(x.f))
                   ex  == 9 - (Len(Digits(x.f)) - 1)
               IN  <<sig[1]>>
                   \o (IF Len(sig) > 1 THEN <<46>> \o SubSeq(sig, 2, Len(sig)) ELSE <<>>)
                   \o <<101, 45, 48>> \o Digits(ex)
          ELSE LET fr == StripZeros(FracDigits(x.f))
               IN  Digits(x.i) \o <<46>> \o (IF fr = <<>> THEN <<48>> ELSE fr)
    IN  sign \o body

\* a < b for two strings.
StrLess(a, b) ==
    \E k \in 1..Len(b) :
        /\ \A j \in 1..k - 1 : j <= Len(a) /\ a[j] = b[j]
        /\ (k > Len(a) \/ (k <= Len(a) /\ a[k] < b[k]))
        /\ k - 1 <= Len(a)

\* The keys of self.results.  eval_sequence writes f'{err}_{idx}' (line 700);
\* dl4seq_model writes str(error) (line 603), a key without an index.
NoIdx == -1
KeyWithoutIdx(err, i) == [err |-> err, idx |-> NoIdx]

TrialKey(err, i) == [err |-> err, idx |-> i]
ModelKey(err) == [err |-> err, idx |-> NoIdx]

\* The key as the string it is.
KeyString(k) ==
    IF k.idx = NoIdx THEN FloatRepr(k.err)
    ELSE FloatRepr(k.err) \o <<95>> \o Digits(k.idx)

(***************************************************************************)
(* The objective.  "sum", "flat", "partial" and "nonfinite" are functions   *)
(* of the caller that take their parameters by position or by name;         *)
(* "kwargs" is a function that takes keyword arguments only, "args" one     *)
(* that takes positional arguments only; "sklearn" is a scikit-learn        *)
(* estimator, "dl4seq" is the built-in model (objective_fn is None and      *)
(* dl4seq_args is given).                                                  *)
(***************************************************************************)
Objectives == {"sum", "flat", "partial", "nonfinite", "kwargs", "args", "sklearn", "dl4seq"}

RECURSIVE SumVals(_)
SumVals(para) ==
    IF para = <<>> THEN 0 ELSE para[1].val + SumVals(SubSeq(para, 2, Len(para)))

\* The squared distance of the first declared dimension's value from the third
\* value of its grid: an objective that does not depend on the other dimensions.
Flat(para) ==
    LET e == CHOOSE e \in Range(para) : DimOf(e.val) = 1
    IN  (3 - IndexOf(e.val)) * (3 - IndexOf(e.val))

\* The dimensions of para that take the k-th value of their grid.
Taking(para, k) == { j \in DOMAIN para : IndexOf(para[j].val) = k }

\* What the objective "nonfinite" returns: NaN where one dimension takes the
\* second value of its grid, +Inf where several do, -Inf where none does and
\* one takes the third value, the sum elsewhere.
NonFinite(para) ==
    IF Cardinality(Taking(para, 2)) = 1 THEN NaN
    ELSE IF Cardinality(Taking(para, 2)) > 1 THEN Inf
    ELSE IF Taking(para, 3) # {} THEN NegInf
    ELSE FloatOf(SumVals(para))

\* One evaluation at the combination para: the score returned, or the exception
\* raised.  "sum" returns the sum of the values; "flat" is Flat; "partial"
\* returns the sum, but raises where a dimension takes the second value of its
\* grid, a TypeError where the first declared dimension does and another
\* exception elsewhere; the built-in model's mean squared error is the sum as
\* well.
EvaluateFinite(objective, para) ==
    IF objective = "nonfinite" /\ ~IsFinite(NonFinite(para))
    THEN [raised |-> TRUE, score |-> FloatOf(0), exc |-> "Exception"]
    ELSE [raised |-> FALSE, score |-> FloatOf(SumVals(para)), exc |-> ""]

Evaluate(objective, para) ==
    IF objective = "partial" /\ Taking(para, 2) # {}
    THEN [raised |-> TRUE, score |-> FloatOf(0),
          exc |-> IF \E j \in Taking(para, 2) : DimOf(para[j].val) = 1
                  THEN "TypeError" ELSE "Exception"]
    ELSE IF objective = "flat"
    THEN [raised |-> FALSE, score |-> FloatOf(Flat(para)), exc |-> ""]
    ELSE IF objective = "nonfinite"
    THEN [raised |-> FALSE, score |-> NonFinite(para), exc |-> ""]
    ELSE [raised |-> FALSE, score |-> FloatOf(SumVals(para)), exc |-> ""]

(***************************************************************************)
(* The HyperOpt object.                                                    *)
(***************************************************************************)

\* The keyword arguments that name the number of iterations: at most one of
\* num_iterations, n_calls and n_iter is given.
IterationArgs ==
    { [num_iterations |-> n, n_calls |-> None, n_iter |-> None] : n \in {None} \cup (1..MaxIter) }
    \cup { [num_iterations |-> None, n_calls |-> MaxIter, n_iter |-> None],
           [num_iterations |-> None, n_calls |-> None, n_iter |-> MaxIter] }

\* HyperOpt(algorithm, param_space=..., objective_fn=..., eval_on_best=...,
\*          use_named_args=..., random_state=..., num_iterations=...)
\* (random_state is given to random searches only; without it the key is absent;
\* the objectives of one calling convention are given where the other
\* convention is declared, since elsewhere they are "sum"; "nonfinite" is given
\* to grid and random searches)
Calls ==
    { c \in [algorithm      : {"grid", "random", "bayes", "tpe", "invalid"},
             param_space    : ParamSpaces,
             objective      : Objectives,
             eval_on_best   : BOOLEAN,
             use_named_args : BOOLEAN,
             iterations     : IterationArgs,
             random_state   : {None, 1}] :
        /\ c.random_state # None => c.algorithm = "random"
        /\ c.objective = "kwargs" => ~c.use_named_args
        /\ c.objective = "args" => c.use_named_args
        /\ c.objective = "nonfinite" => c.algorithm \in {"grid", "random"} }

\* line 330
AnyAlgorithm(algorithm) == TRUE

ValidAlgorithm(algorithm) == algorithm \in {"random", "grid", "bayes", "tpe"}

\* "sklearn" in str(type(self.objective_fn))
IsSklearn == call.objective = "sklearn"

\* self.dl4seq_args is not None / self.use_dl4seq_model (lines 403-409)
use_dl4seq_model == call.objective = "dl4seq"

\* callable(self.objective_fn)
ObjectiveCallable == call.objective \in {"sum", "flat", "partial", "nonfinite", "kwargs", "args"}

\* The objective does not take its arguments the way use_named_args declares.
SignatureMismatch ==
    \/ ~call.use_named_args /\ call.objective = "kwargs"
    \/ call.use_named_args /\ call.objective = "args"

\* The TypeError of lines 693-696.
SignatureError == "TypeError: use_named_args argument is set to False"

\* lines 483-520
use_sklearn == call.algorithm \in {"random", "grid"} /\ IsSklearn

use_skopt_bayes == call.algorithm = "bayes" /\ IsSklearn

use_skopt_gpmin == call.algorithm = "bayes" /\ ~IsSklearn

use_tpe == call.algorithm = "tpe"

use_own_tpe == use_tpe

use_own == ~use_sklearn /\ ~use_skopt_bayes /\ ~use_skopt_gpmin

\* lines 348-369: what __init__ binds, self.optfn or self.fit ("unset" when the
\* use_own branch binds nothing), or the NotImplementedError of line 369.
Dispatch ==
    IF use_sklearn
    THEN (IF call.algorithm = "random" THEN "RandomizedSearchCV" ELSE "GridSearchCV")
    ELSE IF use_skopt_bayes THEN "BayesSearchCV"
    ELSE IF use_skopt_gpmin THEN "own_fit"
    ELSE IF use_own
    THEN (IF call.algorithm = "grid" THEN "grid_search"
          ELSE IF call.algorithm = "random" THEN "random_search"
          ELSE IF call.algorithm = "tpe" THEN "fmin"
          ELSE "unset")
    ELSE "NotImplementedError"

\* lines 522-527: a fresh generator, seeded with 313 or with random_state.
random_state_global ==
    IF call.random_state = None THEN np_random ELSE RandomState(call.random_state)

random_state ==
    IF call.random_state = None THEN RandomState(313) ELSE RandomState(call.random_state)

\* lines 529-537: the number of iterations, sys.maxsize for tpe without
\* max_evals, or the KeyError of line 537.
num_iterations ==
    IF call.iterations.num_iterations # None
    THEN [kind |-> "value", n |-> call.iterations.num_iterations]
    ELSE IF call.algorithm = "tpe" THEN [kind |-> "maxsize", n |-> 0]
    ELSE IF call.iterations.n_calls # None
    THEN [kind |-> "value", n |-> call.iterations.n_calls]
    ELSE IF call.iterations.n_iter # None
    THEN [kind |-> "value", n |-> call.iterations.n_iter]
    ELSE [kind |-> "KeyError", n |-> 0]

\* x < y for two scores: never with a NaN on either side.
NumLess(x, y) ==
    IF x.special = "nan" \/ y.special = "nan" THEN FALSE
    ELSE IF x.special = "inf" THEN x.neg /\ y # x
    ELSE IF y.special = "inf" THEN ~y.neg
    ELSE IF x.neg # y.neg THEN x.neg /\ (x.i # 0 \/ x.f # 0 \/ y.i # 0 \/ y.f # 0)
    ELSE IF x.neg THEN (y.i < x.i \/ (y.i = x.i /\ y.f < x.f))
    ELSE (x.i < y.i \/ (x.i = y.i /\ x.f < y.f))

\* np.argmin over the func_vals of a run: the first index of the least value.
ArgMin(run_trials) ==
    CHOOSE i \in DOMAIN run_trials :
        /\ \A j \in DOMAIN run_trials : ~NumLess(run_trials[j].fun, run_trials[i].fun)
        /\ \A j \in 1..i - 1 : NumLess(run_trials[i].fun, run_trials[j].fun)

\* lines 539-554.  gp_minimize: x_iters[np.argmin(func_vals)]; tpe: the values
\* of trials.best_trial; otherwise the parameters under the least key of
\* self.results, the keys compared as strings.
best_paras ==
    IF use_skopt_gpmin THEN gpmin_results[ArgMin(gpmin_results)].x
    ELSE IF use_tpe THEN trials[ArgMin(trials)].x
    ELSE (CHOOSE e \in Range(results) :
            \A o \in Range(results) :
                o.key # e.key => StrLess(KeyString(e.key), KeyString(o.key))).val

NoArtifacts ==
    [eval_results |-> <<>>, written |-> FALSE, convergence |-> FALSE,
     gp_parameters |-> FALSE, trials_json |-> FALSE]

InitHyperOpt ==
    /\ args = DocExample
    /\ ret = Pending
    /\ call \in Calls
    /\ pc = "new"
    /\ fit = "unset"
    /\ param_space = <<>>
    /\ param_grid = <<>>
    /\ idx = 0
    /\ results = <<>>
    /\ calls = 0
    /\ evals = <<>>
    /\ error = ""
    /\ artifacts = NoArtifacts
    /\ run = 1
    /\ np_random = 0
    /\ first_grid = <<>>
    /\ best_eval = <<>>
    /\ gpmin_results = <<>>
    /\ trials = <<>>
    /\ DimensionsIdle
    /\ OthersIdle

\* What a raise leaves unchanged.
Raise(e) ==
    /\ pc' = "raised"
    /\ error' = e

\* __init__, lines 321-369.
Construct ==
    /\ pc = "new"
    /\ IF ~ValidAlgorithm(call.algorithm)
       THEN /\ Raise("ValueError: algorithm must be one of random, grid, bayes or tpe.")
            /\ UNCHANGED <<fit, param_space>>
       ELSE IF ~ParamSpaceSetter(call.algorithm, call.param_space).ok
       THEN /\ Raise("ValueError")
            /\ UNCHANGED <<fit, param_space>>
       ELSE /\ param_space' = ParamSpaceSetter(call.algorithm, call.param_space).space
            /\ IF Dispatch = "NotImplementedError"
               THEN /\ Raise("NotImplementedError")
                    /\ UNCHANGED fit
               ELSE /\ fit' = Dispatch
                    /\ pc' = "configured"
                    /\ error' = ""
    /\ UNCHANGED <<bvars, dvars, ovars, lvars, call, param_grid, idx, results, calls, evals, artifacts, run,
                   np_random, first_grid, best_eval>>

\* grid_search, lines 716-721, up to the loop of eval_sequence.
GridSearch ==
    /\ pc = "configured"
    /\ fit = "grid_search"
    /\ param_grid' = ParameterGrid(param_space)
    /\ pc' = "trials"
    /\ idx' = 0
    /\ UNCHANGED <<bvars, dvars, ovars, lvars, call, fit, param_space, results, calls, evals, error, artifacts,
                   run, np_random, first_grid, best_eval>>

\* random_search, lines 723-729, up to the loop of eval_sequence.
RandomSearch ==
    /\ pc = "configured"
    /\ fit = "random_search"
    /\ IF num_iterations.kind = "KeyError"
       THEN /\ Raise("KeyError: n_iter")
            /\ UNCHANGED <<param_grid, idx>>
       ELSE /\ param_grid' = ParameterSampler(param_space, num_iterations.n, random_state)
            /\ pc' = "trials"
            /\ idx' = 0
            /\ error' = ""
    /\ UNCHANGED <<bvars, dvars, ovars, lvars, call, fit, param_space, results, calls, evals, artifacts, run,
                   np_random, first_grid, best_eval>>

\* self.results after one trial with score err (lines 602-603 and 697-700).
Recorded(res, para, err, i) ==
    LET r1 == IF use_dl4seq_model
              THEN DictSet(res, ModelKey(Round(err, 6)), para)
              ELSE res
        e1 == IF use_dl4seq_model THEN Round(err, 6) ELSE err
    IN  DictSet(r1, TrialKey(Round(e1, 8), i), para)

\* One pass of the loop of eval_sequence, lines 683-700.  In the positional
\* branch every TypeError, that of the call and that of the objective's body,
\* becomes the TypeError of lines 693-696.
EvalTrial ==
    /\ pc = "trials"
    /\ idx < Len(param_grid)
    /\ LET para == param_grid[idx + 1]
           out  == Evaluate(call.objective, para)
           positional == ~use_dl4seq_model /\ ~call.use_named_args
       IN  IF ~use_dl4seq_model /\ SignatureMismatch
           THEN /\ Raise(IF positional THEN SignatureError ELSE "TypeError")
                /\ UNCHANGED <<calls, evals, results, idx>>
           ELSE /\ calls' = calls + 1
                /\ evals' = Append(evals, para)
                /\ IF out.raised
                   THEN /\ Raise(IF positional /\ out.exc = "TypeError"
                                 THEN SignatureError ELSE "objective raised")
                        /\ UNCHANGED <<results, idx>>
                   ELSE /\ results' = Recorded(results, para, out.score, idx)
                        /\ idx' = idx + 1
                        /\ UNCHANGED <<pc, error>>
    /\ UNCHANGED <<bvars, dvars, ovars, lvars, call, fit, param_space, param_grid, artifacts, run, np_random,
                   first_grid, best_eval>>

\* The type of a value of the space: the values of the second declared
\* dimension are numpy integers (a grid made by np.linspace or np.arange), the
\* values of the other dimensions are Python ints.
TypeOf(v) == IF DimOf(v) = 2 THEN "int32" ELSE "int"

\* The parameters of a trial with the types of their values.
Typed(para) ==
    [j \in DOMAIN para |-> [name |-> para[j].name, val |-> para[j].val,
                            type |-> TypeOf(para[j].val)]]

\* Jsonize(val)() of a dict of parameters, utils.py lines 414-450: every value
\* whose class name has 'int' in it becomes a Python int.
JsonizeNothing(para) == Typed(para)

Jsonize(para) ==
    [j \in DOMAIN para |-> [name |-> para[j].name, val |-> para[j].val, type |-> "int"]]

\* The items of a dict in the order of their keys, the keys compared as strings
\* (each item with its key as the string it is).
RECURSIVE InsertByKey(_, _, _)
InsertByKey(sorted, e, k) ==
    IF k > Len(sorted) THEN Append(sorted, e)
    ELSE IF StrLess(e.str, sorted[k].str)
    THEN SubSeq(sorted, 1, k - 1) \o <<e>> \o SubSeq(sorted, k, Len(sorted))
    ELSE InsertByKey(sorted, e, k + 1)

RECURSIVE SortedByKey(_)
SortedByKey(items) ==
    IF items = <<>> THEN <<>>
    ELSE LET e == items[Len(items)]
         IN  InsertByKey(SortedByKey(SubSeq(items, 1, Len(items) - 1)),
                         [key |-> e.key, val |-> e.val, str |-> KeyString(e.key)], 1)

\* json.dump(obj, fp, sort_keys=True, indent=4), line 707: the items are written
\* to fp one after the other in the order of their keys; an item with a value
\* that is no basic type raises TypeError, and what was written before it stays
\* in the file.
JsonDump(items) ==
    LET sorted == SortedByKey(items)
        bad    == { i \in DOMAIN sorted :
                      \E j \in DOMAIN sorted[i].val : sorted[i].val[j].type # "int" }
        n      == IF bad = {} THEN Len(sorted)
                  ELSE (CHOOSE i \in bad : \A k \in bad : i <= k) - 1
    IN  [ok |-> bad = {}, file |-> SubSeq(sorted, 1, n)]

\* lines 702-707: the results are jsonized, then eval_results.json is opened
\* and written.
Persist ==
    /\ pc = "trials"
    /\ idx = Len(param_grid)
    /\ LET jsonized_results ==
               [i \in DOMAIN results |->
                   [key |-> results[i].key, val |-> Jsonize(results[i].val)]]
           out == JsonDump(jsonized_results)
       IN  /\ artifacts' = [artifacts EXCEPT !.eval_results = out.file, !.written = TRUE]
           /\ IF out.ok THEN pc' = "plot" /\ error' = ""
              ELSE Raise("TypeError: not JSON serializable")
    /\ UNCHANGED <<bvars, dvars, ovars, lvars, call, fit, param_space, param_grid, idx, results, calls, evals,
                   run, np_random, first_grid, best_eval>>

\* _plot_convergence, lines 772-791, and the branch of line 711.  Line 784
\* makes float32 of the keys: '3.0_0' reads as 3.00, 'nan_0' and 'inf_0' are
\* no numbers.
PlotConvergence ==
    /\ pc = "plot"
    /\ IF num_iterations.kind = "KeyError"
       THEN /\ Raise("KeyError: n_iter")
            /\ UNCHANGED artifacts
       ELSE IF \E e \in Range(results) : e.key.idx # NoIdx /\ ~IsFinite(e.key.err)
       THEN /\ Raise("ValueError: could not convert string to float")
            /\ UNCHANGED artifacts
       ELSE /\ artifacts' = [artifacts EXCEPT !.convergence = TRUE]
            /\ pc' = IF call.eval_on_best THEN "best" ELSE "done"
            /\ error' = ""
    /\ UNCHANGED <<bvars, dvars, ovars, lvars, call, fit, param_space, param_grid, idx, results, calls, evals,
                   run, np_random, first_grid, best_eval>>

\* eval_with_best, lines 834-857, and the return of eval_sequence.
EvalWithBest ==
    /\ pc = "best"
    /\ LET x == best_paras
       IN  IF call.use_named_args /\ use_dl4seq_model
           THEN \* dl4seq_model(pp=True, ..., **x)
                /\ calls' = calls + 1
                /\ best_eval' = [form |-> "dl4seq_model", paras |-> x]
                /\ results' = DictSet(results,
                                      ModelKey(Round(Evaluate(call.objective, x).score, 6)), x)
                /\ pc' = "done"
                /\ error' = ""
           ELSE IF call.use_named_args
           THEN \* self.objective_fn(**x)
                /\ calls' = calls + 1
                /\ best_eval' = [form |-> "keywords", paras |-> x]
                /\ IF Evaluate(call.objective, x).raised
                   THEN Raise("objective raised")
                   ELSE pc' = "done" /\ error' = ""
                /\ UNCHANGED results
           ELSE IF ObjectiveCallable /\ use_skopt_gpmin
           THEN \* self.objective_fn(x): x is the list gp_minimize would pass
                /\ calls' = calls + 1
                /\ best_eval' = [form |-> "one list", paras |-> x]
                /\ IF Evaluate(call.objective, x).raised
                   THEN Raise("objective raised")
                   ELSE pc' = "done" /\ error' = ""
                /\ UNCHANGED results
           ELSE IF ObjectiveCallable
           THEN \* self.objective_fn(x): the dict is the one positional argument
                /\ calls' = calls + 1
                /\ best_eval' = [form |-> "one dict", paras |-> x]
                /\ \E accepted \in BOOLEAN :
                     \* an objective of several parameters lacks arguments; what an
                     \* objective of one parameter does with a dict is its own affair
                     /\ accepted => Len(x) = 1
                     /\ IF accepted THEN pc' = "done" /\ error' = ""
                        ELSE Raise("TypeError")
                /\ UNCHANGED results
           ELSE /\ Raise("NotImplementedError")
                /\ UNCHANGED <<calls, best_eval, results>>
    /\ UNCHANGED <<bvars, dvars, ovars, lvars, call, fit, param_space, param_grid, idx, evals, artifacts, run,
                   np_random, first_grid>>

\* A second HyperOpt object is made with the same arguments, in the same
\* process, after a random search has ended; in between, other code may have
\* drawn from numpy's global generator.
SecondSearch ==
    /\ run = 1
    /\ call.algorithm = "random"
    /\ pc \in {"done", "raised"}
    /\ fit = "random_search"
    /\ run' = 2
    /\ first_grid' = param_grid
    /\ np_random' \in {np_random, RngNext(np_random)}
    /\ pc' = "new"
    /\ fit' = "unset"
    /\ param_space' = <<>>
    /\ param_grid' = <<>>
    /\ idx' = 0
    /\ results' = <<>>
    /\ calls' = 0
    /\ evals' = <<>>
    /\ error' = ""
    /\ artifacts' = NoArtifacts
    /\ best_eval' = <<>>
    /\ UNCHANGED <<bvars, dvars, ovars, lvars, call>>

(***************************************************************************)
(* own_fit (gp_minimize) and fmin (hyperopt), lines 647-678 and 731-759.   *)
(***************************************************************************)

\* The points the minimizers try: the lowest and the highest corner of the
\* space, as the values of the dimensions in declaration order.
PointsTried ==
    { [d \in DOMAIN call.param_space |->
          [name |-> call.param_space[d].name, val |-> call.param_space[d].grid[1]]],
      [d \in DOMAIN call.param_space |->
          [name |-> call.param_space[d].name,
           val  |-> call.param_space[d].grid[Len(call.param_space[d].grid)]]] }

\* What gp_minimize gets of the iteration arguments (lines 648-655):
\* num_iterations is renamed to n_calls, n_iter is a keyword gp_minimize does not
\* have, and without any of them gp_minimize runs its default number of calls.
GpCalls ==
    IF call.iterations.num_iterations # None
    THEN [kind |-> "value", n |-> call.iterations.num_iterations]
    ELSE IF call.iterations.n_calls # None
    THEN [kind |-> "value", n |-> call.iterations.n_calls]
    ELSE IF call.iterations.n_iter # None THEN [kind |-> "TypeError", n |-> 0]
    ELSE [kind |-> "default", n |-> 0]

\* What hyperopt's fmin gets (lines 733-750): num_iterations is renamed to
\* max_evals, n_calls and n_iter are keywords fmin does not have, and without
\* max_evals fmin runs up to its default, sys.maxsize.
TpeEvals ==
    IF call.iterations.num_iterations # None
    THEN [kind |-> "value", n |-> call.iterations.num_iterations]
    ELSE IF call.iterations.n_calls # None \/ call.iterations.n_iter # None
    THEN [kind |-> "TypeError", n |-> 0]
    ELSE [kind |-> "maxsize", n |-> 0]

\* A run of the library goes on: below the number of calls asked for, and in
\* the model never beyond MaxIter + 1 trials.
MoreTrials(count) ==
    /\ count.kind = "value" => Len(trials) < count.n
    /\ Len(trials) < MaxIter + 1

RECURSIVE FromGpmin(_)
\* line 671: {str(round(k, 8)): self.to_kw(v) for k, v in zip(func_vals, x_iters)}
FromGpmin(run_trials) ==
    IF run_trials = <<>> THEN <<>>
    ELSE LET last == run_trials[Len(run_trials)]
         IN  DictSet(FromGpmin(SubSeq(run_trials, 1, Len(run_trials) - 1)),
                     ModelKey(Round(last.fun, 8)), last.x)

\* own_fit up to the call of gp_minimize, lines 647-655.  model_for_gpmin raises
\* ValueError when there is no function to call positionally (line 645).
OwnFit ==
    /\ pc = "configured"
    /\ fit = "own_fit"
    /\ IF ~call.use_named_args /\ ~ObjectiveCallable
       THEN Raise("ValueError")
       ELSE IF GpCalls.kind = "TypeError"
       THEN Raise("TypeError: unexpected keyword argument n_iter")
       ELSE pc' = "gp_minimize" /\ error' = ""
    /\ UNCHANGED <<bvars, dvars, ovars, lvars, call, fit, param_space, param_grid, idx, results, calls,
                   evals, artifacts, run, np_random, first_grid, best_eval>>

\* gp_minimize evaluates one point.  What the objective raises ends own_fit
\* (a ValueError as another ValueError, lines 656-666); the points evaluated so
\* far are in the minimizer, self.results has only what dl4seq_model wrote.
GpTrial ==
    /\ pc = "gp_minimize"
    /\ MoreTrials(GpCalls)
    /\ \E x \in PointsTried :
         LET out == Evaluate(call.objective, x)
             fun == IF use_dl4seq_model THEN Round(out.score, 6) ELSE out.score
         IN  IF ~use_dl4seq_model /\ SignatureMismatch
             THEN /\ Raise("TypeError")
                  /\ UNCHANGED <<calls, evals, results, trials>>
             ELSE /\ calls' = calls + 1
                  /\ evals' = Append(evals, x)
                  /\ IF out.raised
                     THEN /\ Raise("objective raised")
                          /\ UNCHANGED <<results, trials>>
                     ELSE /\ trials' = Append(trials, [x |-> x, fun |-> fun])
                          /\ results' = IF use_dl4seq_model
                                        THEN DictSet(results, ModelKey(fun), x)
                                        ELSE results
                          /\ UNCHANGED <<pc, error>>
    /\ UNCHANGED <<bvars, dvars, ovars, gpmin_results, call, fit, param_space, param_grid, idx,
                   artifacts, run, np_random, first_grid, best_eval>>

\* gp_minimize returns: lines 668-678.  post_process_skopt_results saves the
\* plots of skopt, the convergence plot among them, and gp_parameters.json.
OwnFitReturns ==
    /\ pc = "gp_minimize"
    /\ GpCalls.kind = "value"
    /\ Len(trials) = GpCalls.n
    /\ gpmin_results' = trials
    /\ results' = IF Len(results) < 1 THEN FromGpmin(trials) ELSE results
    /\ artifacts' = [artifacts EXCEPT !.gp_parameters = TRUE, !.convergence = TRUE]
    /\ pc' = IF call.eval_on_best THEN "best" ELSE "done"
    /\ UNCHANGED <<bvars, dvars, ovars, trials, call, fit, param_space, param_grid, idx, calls, evals,
                   error, run, np_random, first_grid, best_eval>>

\* fmin up to the call of hyperopt's fmin, lines 731-750.
Fmin ==
    /\ pc = "configured"
    /\ fit = "fmin"
    /\ IF TpeEvals.kind = "TypeError"
       THEN Raise("TypeError: unexpected keyword argument")
       ELSE pc' = "fmin" /\ error' = ""
    /\ UNCHANGED <<bvars, dvars, ovars, lvars, call, fit, param_space, param_grid, idx, results, calls,
                   evals, artifacts, run, np_random, first_grid, best_eval>>

\* hyperopt evaluates one point: objective_fn(**kws) or objective_fn(kws).  An
\* objective that is no function (an estimator, None) raises TypeError; what the
\* objective raises ends fmin, and the Trials object is local to fmin.
TpeTrial ==
    /\ pc = "fmin"
    /\ MoreTrials(TpeEvals)
    /\ \E x \in PointsTried :
         LET out == Evaluate(call.objective, x)
         IN  IF ~ObjectiveCallable
             THEN /\ Raise("TypeError: not callable")
                  /\ UNCHANGED <<calls, evals, trials>>
             ELSE IF SignatureMismatch
             THEN /\ Raise("TypeError")
                  /\ UNCHANGED <<calls, evals, trials>>
             ELSE /\ calls' = calls + 1
                  /\ evals' = Append(evals, x)
                  /\ IF out.raised
                     THEN /\ Raise("objective raised")
                          /\ UNCHANGED trials
                     ELSE /\ trials' = Append(trials, [x |-> x, fun |-> out.score])
                          /\ UNCHANGED <<pc, error>>
    /\ UNCHANGED <<bvars, dvars, ovars, gpmin_results, call, fit, param_space, param_grid, idx, results,
                   artifacts, run, np_random, first_grid, best_eval>>

\* hyperopt's fmin returns: lines 752-759.  self.results becomes trials.results,
\* the list of the losses by trial; _plot_convergence reads the trials.
FminReturns ==
    /\ pc = "fmin"
    /\ TpeEvals.kind = "value"
    /\ Len(trials) = TpeEvals.n
    /\ results' = [i \in DOMAIN trials |-> [key |-> TrialKey(trials[i].fun, i - 1), val |-> <<>>]]
    /\ artifacts' = [artifacts EXCEPT !.trials_json = TRUE, !.convergence = TRUE]
    /\ pc' = "done"
    /\ UNCHANGED <<bvars, dvars, ovars, lvars, call, fit, param_space, param_grid, idx, calls, evals,
                   error, run, np_random, first_grid, best_eval>>

NextHyperOpt ==
    \/ Construct
    \/ GridSearch
    \/ RandomSearch
    \/ EvalTrial
    \/ Persist
    \/ PlotConvergence
    \/ EvalWithBest
    \/ SecondSearch
    \/ OwnFit
    \/ GpTrial
    \/ OwnFitReturns
    \/ Fmin
    \/ TpeTrial
    \/ FminReturns

SpecHyperOpt == InitHyperOpt /\ [][NextHyperOpt]_vars

(***************************************************************************)
(* Claims about HyperOpt.                                                  *)
(***************************************************************************)

\* C7: with an algorithm name outside {grid, random, bayes, tpe} the constructor
\* raises its error about the algorithm, no strategy is bound and the objective
\* has not been evaluated: the call counter is 0 when the error is raised.
C7_InvalidAlgorithm ==
    (pc # "new" /\ call.algorithm \notin {"grid", "random", "bayes", "tpe"})
    => /\ pc = "raised"
       /\ error = "ValueError: algorithm must be one of random, grid, bayes or tpe."
       /\ calls = 0
       /\ evals = <<>>
       /\ fit = "unset"

C7_Witness ==
    /\ pc = "raised"
    /\ call.algorithm = "invalid"
    /\ call.objective = "sum"
    /\ calls = 0

\* The loop of eval_sequence has run through the whole of param_grid.
LoopFinished ==
    /\ pc \in {"trials", "plot", "best", "done", "raised"}
    /\ param_grid # <<>>
    /\ idx = Len(param_grid)

\* A combination as a mapping from names to values.
AsMap(para) ==
    [n \in { para[j].name : j \in DOMAIN para } |->
        (CHOOSE e \in Range(para) : e.name = n).val]

\* The Cartesian product of the grids of the dimensions the caller gave.
GivenNames == { call.param_space[d].name : d \in DOMAIN call.param_space }
GivenValues == UNION { Range(call.param_space[d].grid) : d \in DOMAIN call.param_space }
GivenProduct ==
    { m \in [GivenNames -> GivenValues] :
        \A d \in DOMAIN call.param_space :
            m[call.param_space[d].name] \in Range(call.param_space[d].grid) }

RECURSIVE ProductOfSizes(_)
ProductOfSizes(dims) ==
    IF dims = <<>> THEN 1
    ELSE Len(dims[1].grid) * ProductOfSizes(SubSeq(dims, 2, Len(dims)))

\* C8: a grid search that has run through its trials has evaluated the objective
\* a*b*c times in them, once per combination: the evaluated combinations are
\* pairwise different and are together the Cartesian product of the grids.
C8_GridExhaustive ==
    (fit = "grid_search" /\ LoopFinished)
    => /\ Len(evals) = ProductOfSizes(call.param_space)
       /\ calls = ProductOfSizes(call.param_space) + (IF best_eval = <<>> THEN 0 ELSE 1)
       /\ \A p, q \in DOMAIN evals : AsMap(evals[p]) = AsMap(evals[q]) => p = q
       /\ { AsMap(evals[k]) : k \in DOMAIN evals } = GivenProduct

C8_Witness ==
    /\ fit = "grid_search"
    /\ pc = "done"
    /\ Len(call.param_space) = 3
    /\ Len(call.param_space[1].grid) = 2
    /\ Len(call.param_space[2].grid) = 1
    /\ Len(call.param_space[3].grid) = 2
    /\ Len(evals) = 4
    /\ call.param_space[1].name = "c"

\* The number of iterations the caller asked for.
AskedIterations ==
    IF call.iterations.num_iterations # None THEN call.iterations.num_iterations
    ELSE IF call.iterations.n_calls # None THEN call.iterations.n_calls
    ELSE call.iterations.n_iter

\* The trials self.results records under a key with a trial index.
TrialRecords == { e \in Range(results) : e.key.idx # NoIdx }

\* C9 as stated: a random search asked for N iterations evaluates and records
\* exactly N trials, also when the grids have fewer than N combinations.
C9_Original ==
    (fit = "random_search" /\ LoopFinished)
    => /\ Len(evals) = AskedIterations
       /\ Cardinality(TrialRecords) = AskedIterations

\* What random_search does instead (C9): a random search asked for N iterations,
\* whose trials all return, evaluates and records min(N, P) trials, P being the
\* number of combinations of the grids: ParameterSampler draws the combinations
\* without replacement, N of them when P >= N, all P when P < N.
C9_TrialCount ==
    (fit = "random_search" /\ LoopFinished)
    => /\ Len(evals) = Min(AskedIterations, ProductOfSizes(call.param_space))
       /\ Cardinality(TrialRecords) = Min(AskedIterations, ProductOfSizes(call.param_space))
       /\ ProductOfSizes(call.param_space) >= AskedIterations
            => Len(evals) = AskedIterations

C9_Witness ==
    /\ fit = "random_search"
    /\ pc = "done"
    /\ AskedIterations = 2
    /\ ProductOfSizes(call.param_space) = 4
    /\ Len(evals) = 2
    /\ Cardinality(TrialRecords) = 2

\* The recorded trials whose score no other recorded trial undercuts.
MinimumTrials == { e \in TrialRecords : \A o \in TrialRecords : ~NumLess(o.key.err, e.key.err) }

\* C11 as stated: after a grid search whose objective has a unique minimum among
\* the trials, best_paras is the combination of the trial with the numerically
\* smallest recorded score.
C11_Original ==
    (fit = "grid_search" /\ LoopFinished /\ Cardinality(MinimumTrials) = 1)
    => \A e \in MinimumTrials : best_paras = e.val

\* The trial among the minimum-score trials that was evaluated first.
FirstMinimumTrial == CHOOSE e \in MinimumTrials : \A o \in MinimumTrials : e.key.idx <= o.key.idx

\* C12 as stated, for an objective function of the caller: when several trials
\* of a grid or random search share the minimum score, best_paras is the
\* combination of the one evaluated first, also in a run of more than ten trials.
C12_Original ==
    (/\ fit \in {"grid_search", "random_search"}
     /\ ObjectiveCallable
     /\ LoopFinished
     /\ Cardinality(MinimumTrials) > 1)
    => best_paras = FirstMinimumTrial.val

\* The names of the dimensions in the order the caller declared them.
DeclaredNames == [d \in DOMAIN call.param_space |-> call.param_space[d].name]

\* The names of a combination in the order of its values: under the positional
\* convention the objective is called with *list(para.values()).
PositionalNames(para) == [j \in DOMAIN para |-> para[j].name]

\* C17 as stated: under the positional convention every trial of a grid or
\* random search passes the values in the order the dimensions were declared,
\* and a grid search enumerates the product with the dimensions in that order,
\* whatever the names are.
C17_Original ==
    (fit \in {"grid_search", "random_search"} /\ ~call.use_named_args /\ ObjectiveCallable)
    => /\ \A k \in DOMAIN evals : PositionalNames(evals[k]) = DeclaredNames
       /\ (fit = "grid_search" /\ param_grid # <<>>)
            => param_grid = [k \in 1..SizeFrom(param_space, 1) |-> ComboAt(param_space, k - 1)]

\* None of num_iterations, n_calls and n_iter was given (max_evals never is).
NoIterationCount ==
    /\ call.iterations.num_iterations = None
    /\ call.iterations.n_calls = None
    /\ call.iterations.n_iter = None

\* C18 as stated: a random search and a tpe run without an iteration count
\* evaluate no trial; once fit() has been entered the run has failed or is
\* about to, it has not begun its trials and does not complete.
C18_Original ==
    (call.algorithm \in {"random", "tpe"} /\ NoIterationCount)
    => /\ calls = 0
       /\ evals = <<>>
       /\ pc \in {"new", "configured", "fmin", "raised"}

\* C19 as stated: after a completed gp_minimize run with an objective function
\* of the caller, self.results has one record for every point the minimizer
\* evaluated, as many as there are (x_iters, func_vals) pairs, and every pair
\* is among the records.
C19_Original ==
    (fit = "own_fit" /\ ObjectiveCallable /\ gpmin_results # <<>>)
    => /\ Len(results) = Len(gpmin_results)
       /\ \A i \in DOMAIN gpmin_results :
            \E e \in Range(results) :
                e.key.err = Round(gpmin_results[i].fun, 8) /\ e.val = gpmin_results[i].x

\* The objective raised in a trial of fit() (not in eval_with_best).
TrialRaised == pc = "raised" /\ error = "objective raised" /\ best_eval = <<>>

\* C20 as stated: when the objective raises in trial k of a grid, random, bayes
\* or tpe run, fit() fails, the raising trial is the last one evaluated, and
\* self.results holds a record for each of the k trials that completed before.
C20_Original ==
    (TrialRaised /\ fit \in {"grid_search", "random_search", "own_fit", "fmin"})
    => /\ Len(results) = Len(evals) - 1
       /\ \A k \in 1..Len(evals) - 1 : \E e \in Range(results) : e.val = evals[k]

\* The score the objective returns in trial t (from 1) of the iteration plan.
ScoreOf(t) == Evaluate(call.objective, param_grid[t]).score

\* C21: in a grid or random search whose objective returns NaN or an infinity
\* in some trials, every such trial is recorded under that score and its index,
\* and the loop goes on: once the search has left the loop, or has stopped, every
\* combination of the iteration plan has been evaluated, in order, and recorded.
C21_NonFiniteRecorded ==
    (fit \in {"grid_search", "random_search"} /\ call.objective = "nonfinite")
    => /\ \A t \in 1..idx :
            [key |-> TrialKey(Round(ScoreOf(t), 8), t - 1), val |-> param_grid[t]]
                \in Range(results)
       /\ evals = SubSeq(param_grid, 1, idx)
       /\ pc \in {"plot", "best", "done", "raised"} => idx = Len(param_grid)

C21_Witness ==
    /\ fit \in {"grid_search", "random_search"}
    /\ call.objective = "nonfinite"
    /\ pc = "plot"
    /\ \E t \in 1..Len(param_grid) - 1 :
         /\ ~IsFinite(ScoreOf(t))
         /\ [key |-> TrialKey(ScoreOf(t), t - 1), val |-> param_grid[t]] \in Range(results)
         /\ \E u \in t + 1..Len(param_grid) :
              [key |-> TrialKey(Round(ScoreOf(u), 8), u - 1), val |-> param_grid[u]]
                  \in Range(results)

\* The file eval_results.json holds the record of every trial of the plan.
FileComplete ==
    /\ artifacts.written
    /\ \A t \in 1..Len(param_grid) :
         \E e \in Range(artifacts.eval_results) :
             e.key.idx = t - 1 /\ e.val = Jsonize(param_grid[t])

C23_Original ==
    (fit \in {"grid_search", "random_search"} /\ pc = "done")
    => /\ Len(results) = Len(evals)
       /\ \A t \in 1..Len(evals) :
            \E e \in Range(results) :
                /\ e.key.idx = t - 1
                /\ e.val = evals[t]
                /\ e.key.err = Round(e.key.err, 8)
       /\ \A e \in Range(results) : e.key.idx # NoIdx

\* The form in which the trials hand the parameters to an objective function of
\* the caller: as keywords, as positional arguments (line 691), as the one list
\* gp_minimize passes or as the one dict hyperopt passes.
TrialForm ==
    IF call.use_named_args THEN "keywords"
    ELSE IF fit \in {"grid_search", "random_search"} THEN "positional"
    ELSE IF fit = "own_fit" THEN "one list"
    ELSE "one dict"

\* C24 as stated, for an objective function of the caller: a run with
\* eval_on_best that has ended has called the objective once more, with the
\* values of the best parameters in the form the trials used.
C24_Original ==
    (/\ fit \in {"grid_search", "random_search", "own_fit", "fmin"}
     /\ ObjectiveCallable
     /\ call.eval_on_best
     /\ pc = "done")
    => /\ best_eval # <<>>
       /\ best_eval.form = TrialForm
       /\ best_eval.paras = best_paras
       /\ calls = Len(evals) + 1

\* C25 as stated: whenever a run fails in a trial, of any algorithm, then if the
\* objective does not take its arguments the way use_named_args declares, it is
\* the first trial and the error is the signature error of lines 693-696; and
\* the error is that signature error only if there is such a mismatch.
C25_Original ==
    [][(pc \in {"trials", "gp_minimize", "fmin"} /\ pc' = "raised")
       => /\ SignatureMismatch => (error' = SignatureError /\ evals = <<>>)
          /\ error' = SignatureError => SignatureMismatch]_vars

\* The trials of the run are over: the plan of a grid or random search is
\* exhausted, the minimizer has returned.
TrialsOver ==
    IF fit \in {"grid_search", "random_search"} THEN LoopFinished
    ELSE IF fit = "own_fit" THEN gpmin_results # <<>> /\ Len(gpmin_results) = Len(evals)
    ELSE results # <<>> /\ Len(results) = Len(evals)

\* The results file of the run is written: eval_results.json,
\* gp_parameters.json or trials.json.
ArtifactWritten == artifacts.written \/ artifacts.gp_parameters \/ artifacts.trials_json

\* C28 as stated: in a run of grid, random, bayes (gp_minimize) or tpe, the
\* objective is evaluated at the best parameters only after all trials are
\* over and the results file and the convergence plot are made, and a run that
\* has ended has made that evaluation if and only if eval_on_best was given.
C28_Original ==
    fit \in {"grid_search", "random_search", "own_fit", "fmin"}
    => /\ (pc \in {"best", "done"} \/ best_eval # <<>>)
            => (TrialsOver /\ ArtifactWritten /\ artifacts.convergence)
       /\ pc = "done" => (best_eval # <<>> <=> call.eval_on_best)

\* The dispatch predicates that are true of the object.
TruePredicates ==
    { p \in {"use_sklearn", "use_skopt_bayes", "use_skopt_gpmin", "use_own"} :
        \/ p = "use_sklearn" /\ use_sklearn
        \/ p = "use_skopt_bayes" /\ use_skopt_bayes
        \/ p = "use_skopt_gpmin" /\ use_skopt_gpmin
        \/ p = "use_own" /\ use_own }

\* C30: for grid, random, bayes and tpe, with an estimator of sklearn or any
\* other objective, exactly one of use_sklearn, use_skopt_bayes,
\* use_skopt_gpmin and use_own is true; the constructor binds one strategy and
\* never raises the NotImplementedError of its last branch.
C30_OneStrategy ==
    ValidAlgorithm(call.algorithm)
    => /\ Cardinality(TruePredicates) = 1
       /\ Dispatch \notin {"unset", "NotImplementedError"}
       /\ pc = "configured" => fit = Dispatch
       /\ ~(pc = "raised" /\ fit = "unset" /\ error = "NotImplementedError")

C30_Witness ==
    /\ pc = "configured"
    /\ call.algorithm = "tpe"
    /\ IsSklearn
    /\ TruePredicates = {"use_own"}
    /\ fit = "fmin"

\* C10: the second of two random searches with the same space, iteration count
\* and random_state (given, or absent in both) gets and evaluates the same
\* sequence of combinations as the first, whatever was drawn from the global
\* generator in between.
C10_SameSequence ==
    (run = 2 /\ fit = "random_search" /\ pc \in {"trials", "plot", "best", "done", "raised"})
    => /\ param_grid = first_grid
       /\ Len(evals) <= Len(first_grid)
       /\ \A k \in DOMAIN evals : evals[k] = first_grid[k]

C10_Witness ==
    /\ run = 2
    /\ fit = "random_search"
    /\ pc = "done"
    /\ call.random_state = None
    /\ np_random # 0
    /\ Len(evals) = 2
    /\ evals = first_grid

(***************************************************************************)
(* The dimensions Real, Integer and Categorical, lines 33-138, and what    *)
(* the param_space setter makes of a list of them.                         *)
(***************************************************************************)

\* Bounds of the dimension model: the largest high, num_samples and step.
MaxHigh == 4
MaxSamples == 3
MaxStepSize == 2

\* Counter.counter, line 34: the class attribute.  `self.counter += 1` reads it
\* and assigns the sum to an attribute of the instance; nothing assigns the
\* class attribute.
counter == 0

RECURSIVE Factorial(_)
Factorial(n) == IF n <= 1 THEN 1 ELSE n * Factorial(n - 1)

\* The values of a grid are floats: they are kept in units of 1/Unit, a
\* multiple of every num_samples - 1, so that the points of linspace are exact.
Unit == Factorial(MaxSamples)

\* name and grid not given.
NoName == ""
NoGrid == <<>>

\* The explicit grids a caller gives: ascending, descending, a single value.
ExplicitGrids == { <<1, MaxHigh>>, <<MaxHigh, 1>>, <<2>> }

\* Real(...) and Integer(...) as the caller writes them: low and high together
\* or not at all, num_samples and step positive when given.
NumericDecls ==
    { d \in [kind        : {"Real", "Integer"},
             name        : {NoName, "a", "b"},
             low         : {None, 1},
             high        : {None} \cup (2..MaxHigh),
             num_samples : {None} \cup (1..MaxSamples),
             step        : {None} \cup (1..MaxStepSize),
             grid        : {NoGrid} \cup ExplicitGrids,
             categories  : {<<>>}] :
        (d.low = None) <=> (d.high = None) }

\* Categorical(categories, name=...)
CategoricalDecls ==
    [kind : {"Categorical"}, name : {NoName, "a", "b"}, low : {None}, high : {None},
     num_samples : {None}, step : {None}, grid : {NoGrid},
     categories : {<<100, 200>>, <<100>>}]

Decls == NumericDecls \cup CategoricalDecls

\* The dimensions that stand second in a space of two.
SecondDecls ==
    { d \in Decls :
        /\ d.name \in {NoName, "a"}
        /\ d.kind # "Categorical" => (d.low = 1 /\ d.high = MaxHigh /\ d.num_samples = 2
                                      /\ d.step = None /\ d.grid = NoGrid)
        /\ d.kind = "Categorical" => Len(d.categories) = 2 }

\* The lists of dimensions a caller writes: one dimension, or two.
DeclLists == { <<d>> : d \in Decls } \cup { <<d, e>> : d \in Decls, e \in SecondDecls }

\* A value in units of 1/Unit.
Scaled(q) == [i \in 1..Len(q) |-> q[i] * Unit]

\* np.linspace(low, high, num): num points from low to high, both included; a
\* single point is low.  With dtype=np.int32 each point loses its fraction.
linspace(low, high, num, integer) ==
    [k \in 1..num |->
        LET v == IF num = 1 THEN low * Unit
                 ELSE low * Unit + ((k - 1) * (high - low) * Unit) \div (num - 1)
        IN  IF integer THEN (v \div Unit) * Unit ELSE v]

\* np.arange(low, high, step): low, low + step, ... below high.
arange(low, high, step) ==
    [k \in 1..((high - low + step - 1) \div step) |-> (low + (k - 1) * step) * Unit]

\* `if self.num_samples:` and `elif self.step:`: given and not zero.
Truthy(v) == v # None /\ v # 0

\* A grid setter that looks at step before num_samples.
GridSetterStepFirst(kind, low, high, num_samples, step, x) ==
    IF x = NoGrid
    THEN IF Truthy(step) THEN [set |-> TRUE, grid |-> arange(low, high, step)]
         ELSE IF Truthy(num_samples)
         THEN [set |-> TRUE, grid |-> linspace(low, high, num_samples, kind = "Integer")]
         ELSE [set |-> FALSE, grid |-> <<>>]
    ELSE [set |-> TRUE, grid |-> Scaled(x)]

\* A grid setter that uses the explicit grid only when nothing else is given.
GridSetterGridLast(kind, low, high, num_samples, step, x) ==
    IF Truthy(num_samples)
    THEN [set |-> TRUE, grid |-> linspace(low, high, num_samples, kind = "Integer")]
    ELSE IF Truthy(step) THEN [set |-> TRUE, grid |-> arange(low, high, step)]
    ELSE IF x = NoGrid THEN [set |-> FALSE, grid |-> <<>>]
    ELSE [set |-> TRUE, grid |-> Scaled(x)]

\* The grid setter, lines 69-77 and 116-125: self._grid, when it is assigned.
GridSetter(kind, low, high, num_samples, step, x) ==
    IF x = NoGrid
    THEN IF Truthy(num_samples)
         THEN [set |-> TRUE, grid |-> linspace(low, high, num_samples, kind = "Integer")]
         ELSE IF Truthy(step) THEN [set |-> TRUE, grid |-> arange(low, high, step)]
         ELSE [set |-> FALSE, grid |-> <<>>]
    ELSE [set |-> TRUE, grid |-> Scaled(x)]

\* The name of a dimension: the one given (n = 0), or kind_n (lines 56-58 and
\* 103-105); a Categorical without a name has the name None.
GivenName(name) == [base |-> name, n |-> 0]
AutoName(kind, n) == [base |-> IF kind = "Real" THEN "real_" ELSE "integer_", n |-> n]

\* What a constructor that raised leaves behind.
Failed(d, e) ==
    [kind |-> d.kind, name |-> GivenName(d.name), low |-> None, high |-> None, has_grid |-> FALSE,
     grid |-> <<>>, categories |-> <<>>, counter |-> counter, error |-> e]

\* Real.__init__ (lines 40-63), Integer.__init__ (lines 87-110) and Categorical:
\* the object the nth constructor call of the process makes of d.  self.counter
\* is the class attribute plus one, whatever n is; the bounds are checked by
\* the base class, which raises ValueError unless low < high.
NewObject(d, n) ==
    IF d.kind = "Categorical"
    THEN [kind |-> d.kind, name |-> GivenName(d.name), low |-> None, high |-> None,
          has_grid |-> TRUE, grid |-> d.categories, categories |-> d.categories,
          counter |-> counter, error |-> ""]
    ELSE IF d.low = None /\ d.grid = NoGrid THEN Failed(d, "AssertionError")
    ELSE LET low  == IF d.low = None THEN d.grid[1] ELSE d.low
             high == IF d.low = None THEN d.grid[Len(d.grid)] ELSE d.high
             g    == GridSetter(d.kind, low, high, d.num_samples, d.step, d.grid)
         IN  IF high <= low THEN Failed(d, "ValueError")
             ELSE [kind |-> d.kind,
                   name |-> IF d.name = NoName THEN AutoName(d.kind, counter + 1)
                            ELSE GivenName(d.name),
                   low |-> low, high |-> high, has_grid |-> g.set, grid |-> g.grid,
                   categories |-> <<>>, counter |-> counter + 1, error |-> ""]

\* as_hp(), lines 79-80, 127-128 and 137-138: hp.uniform for Real and for
\* Integer, whose samples are floats, hp.choice for Categorical.
as_hp(o) ==
    IF o.kind = "Categorical"
    THEN [dist |-> "choice", label |-> o.name, low |-> None, high |-> None,
          options |-> o.categories, values |-> "option"]
    ELSE [dist |-> "uniform", label |-> o.name, low |-> o.low, high |-> o.high,
          options |-> <<>>, values |-> "float"]

RECURSIVE NamedGrids(_)
\* lines 459-463: _param_space[_space.name] = _space.grid, in the order of x
NamedGrids(x) ==
    IF x = <<>> THEN <<>>
    ELSE DictSet(NamedGrids(SubSeq(x, 1, Len(x) - 1)), x[Len(x)].name, x[Len(x)].grid)

RECURSIVE NamedHps(_)
\* lines 467-471: _param_space[space.name] = space.as_hp(), in the order of x
NamedHps(x) ==
    IF x = <<>> THEN <<>>
    ELSE DictSet(NamedHps(SubSeq(x, 1, Len(x) - 1)), x[Len(x)].name, as_hp(x[Len(x)]))

\* The param_space setter, lines 437-481, applied to a list of dimension
\* objects.  Reading the grid of a Real or Integer whose setter assigned no
\* _grid raises AttributeError.
ParamSpaceOf(algorithm, x) ==
    IF algorithm = "bayes"
    THEN [algorithm |-> algorithm, ok |-> TRUE, error |-> "", space |-> x]
    ELSE IF algorithm \in {"random", "grid"}
    THEN IF \E i \in DOMAIN x : ~x[i].has_grid
         THEN [algorithm |-> algorithm, ok |-> FALSE, error |-> "AttributeError", space |-> <<>>]
         ELSE [algorithm |-> algorithm, ok |-> TRUE, error |-> "", space |-> NamedGrids(x)]
    ELSE [algorithm |-> algorithm, ok |-> TRUE, error |-> "", space |-> NamedHps(x)]

\* Every dimension the caller wrote has been constructed.
Constructed ==
    /\ Len(dimensions) = Len(decl)
    /\ \A i \in DOMAIN dimensions : dimensions[i].error = ""

InitDimensions ==
    /\ args = DocExample
    /\ ret = Pending
    /\ HyperOptIdle
    /\ OthersIdle
    /\ decl \in DeclLists
    /\ dimensions = <<>>
    /\ translation = NoTranslation

\* The next constructor call of the caller's list.
NewDimension ==
    /\ Len(dimensions) < Len(decl)
    /\ \A i \in DOMAIN dimensions : dimensions[i].error = ""
    /\ dimensions' = Append(dimensions, NewObject(decl[Len(dimensions) + 1], Len(dimensions) + 1))
    /\ UNCHANGED <<bvars, hvars, lvars, ovars, decl, translation>>

\* HyperOpt(algorithm, param_space=[...]): the setter translates the list.
SetParamSpace ==
    /\ Constructed
    /\ translation = NoTranslation
    /\ \E algorithm \in {"grid", "random", "bayes", "tpe"} :
         translation' = ParamSpaceOf(algorithm, dimensions)
    /\ UNCHANGED <<bvars, hvars, lvars, ovars, decl, dimensions>>

NextDimensions ==
    \/ NewDimension
    \/ SetParamSpace

SpecDimensions == InitDimensions /\ [][NextDimensions]_vars

(***************************************************************************)
(* Claims about the dimensions.                                            *)
(***************************************************************************)

\* The caller gave no name to two dimensions of the list.
GivenNamesDiffer ==
    \A i, j \in DOMAIN decl : (decl[i].name # NoName /\ decl[i].name = decl[j].name) => i = j

\* C13 as stated, for Real and Integer dimensions: the names of the dimensions of
\* a space are pairwise different, an unnamed dimension having got its name from
\* the counter, and the list of k dimensions translates to a grid/random mapping
\* of k entries.
C13_Original ==
    (/\ Constructed
     /\ GivenNamesDiffer
     /\ \A i \in DOMAIN decl : decl[i].kind \in {"Real", "Integer"})
    => /\ \A i, j \in DOMAIN dimensions : dimensions[i].name = dimensions[j].name => i = j
       /\ (translation.algorithm \in {"grid", "random"} /\ translation.ok)
            => Len(translation.space) = Len(dimensions)

\* The ith dimension was written with low, high, num_samples and step and
\* without a grid, and its constructor returned.
BothGiven(i) ==
    /\ i \in DOMAIN dimensions
    /\ decl[i].kind \in {"Real", "Integer"}
    /\ decl[i].num_samples # None
    /\ decl[i].step # None
    /\ decl[i].grid = NoGrid
    /\ dimensions[i].error = ""

\* g is the num-point linear space from low to high: num points, the kth at
\* low + (k - 1) * (high - low) / (num - 1), for an Integer cut to a whole number.
IsLinearSpace(g, low, high, num, integer) ==
    /\ Len(g) = num
    /\ g[1] = low * Unit
    /\ \A k \in 1..num :
         LET exact == low * Unit * (num - 1) + (k - 1) * (high - low) * Unit
         IN  IF num = 1 THEN g[k] = low * Unit
             ELSE IF integer
             THEN /\ g[k] % Unit = 0
                  /\ g[k] * (num - 1) <= exact
                  /\ exact < (g[k] + Unit) * (num - 1)
             ELSE g[k] * (num - 1) = exact

\* C14: a Real or Integer dimension constructed with num_samples (positive) and
\* step and without a grid has as its grid the num_samples points of the linear
\* space from low to high, whole numbers for an Integer; step plays no part.
C14_NumSamplesOverStep ==
    \A i \in DOMAIN dimensions :
        BothGiven(i)
        => /\ dimensions[i].has_grid
           /\ IsLinearSpace(dimensions[i].grid, decl[i].low, decl[i].high,
                            decl[i].num_samples, decl[i].kind = "Integer")

C14_Witness ==
    /\ BothGiven(1)
    /\ decl[1].kind = "Integer"
    /\ decl[1].low = 1
    /\ decl[1].high = 4
    /\ decl[1].num_samples = 3
    /\ decl[1].step = 2
    /\ dimensions[1].grid = <<1 * Unit, 2 * Unit, 4 * Unit>>

\* The ith dimension was written with an explicit grid and with num_samples or
\* step, and its constructor returned.
GridAndMore(i) ==
    /\ i \in DOMAIN dimensions
    /\ decl[i].kind \in {"Real", "Integer"}
    /\ decl[i].grid # NoGrid
    /\ (decl[i].num_samples # None \/ decl[i].step # None)
    /\ dimensions[i].error = ""

\* C15 as stated: with an explicit grid and num_samples or step, the grid of the
\* dimension is the one derived from num_samples, or else from step, and not
\* the explicit grid.
C15_Original ==
    \A i \in DOMAIN dimensions :
        GridAndMore(i)
        => /\ dimensions[i].has_grid
           /\ dimensions[i].grid =
                IF decl[i].num_samples # None
                THEN linspace(dimensions[i].low, dimensions[i].high, decl[i].num_samples,
                              decl[i].kind = "Integer")
                ELSE arange(dimensions[i].low, dimensions[i].high, decl[i].step)

\* C15, amended: with an explicit grid and num_samples or step, the grid of the
\* dimension is the explicit grid, value for value in the caller's order;
\* num_samples and step play no part.
C15_ExplicitGridFirst ==
    \A i \in DOMAIN dimensions :
        GridAndMore(i)
        => /\ dimensions[i].has_grid
           /\ Len(dimensions[i].grid) = Len(decl[i].grid)
           /\ \A k \in DOMAIN decl[i].grid : dimensions[i].grid[k] = decl[i].grid[k] * Unit

C15_Witness ==
    /\ GridAndMore(1)
    /\ decl[1].kind = "Real"
    /\ decl[1].grid = <<MaxHigh, 1>>
    /\ decl[1].low = 1
    /\ decl[1].num_samples = 3
    /\ decl[1].step = 1
    /\ dimensions[1].grid = <<MaxHigh * Unit, Unit>>

\* The ith dimension was written in one of the ways of construction: low and
\* high alone or with one of num_samples and step, an explicit grid alone, or
\* categories.
OneSource(i) ==
    \/ decl[i].kind = "Categorical"
    \/ /\ decl[i].low # None
       /\ decl[i].grid = NoGrid
       /\ (decl[i].num_samples = None \/ decl[i].step = None)
    \/ /\ decl[i].low = None
       /\ decl[i].grid # NoGrid
       /\ decl[i].num_samples = None
       /\ decl[i].step = None

\* The least and the greatest value of a grid.
GridMin(g) == CHOOSE v \in Range(g) : \A w \in Range(g) : v <= w
GridMax(g) == CHOOSE v \in Range(g) : \A w \in Range(g) : w <= v

\* The translation keeps the bounds or categories of the dimension o.
Preserved(o) ==
    IF translation.algorithm = "bayes"
    THEN \E e \in Range(translation.space) :
            /\ e.name = o.name
            /\ e.low = o.low
            /\ e.high = o.high
            /\ e.categories = o.categories
    ELSE IF translation.algorithm = "tpe"
    THEN /\ HasKey(translation.space, o.name)
         /\ LET hp == DictGet(translation.space, o.name)
            IN  IF o.kind = "Categorical"
                THEN hp.dist = "choice" /\ hp.options = o.categories
                ELSE /\ hp.low = o.low
                     /\ hp.high = o.high
                     /\ hp.values = (IF o.kind = "Integer" THEN "int" ELSE "float")
    ELSE /\ HasKey(translation.space, o.name)
         /\ LET g == DictGet(translation.space, o.name)
            IN  IF o.kind = "Categorical" THEN g = o.categories
                ELSE /\ g # <<>>
                     /\ GridMin(g) = o.low * Unit
                     /\ GridMax(g) = o.high * Unit

\* C16 as stated: a space of dimensions, each constructed in one of the ways of
\* construction, translates into the representation of every algorithm, and
\* the translation keeps the bounds (the least and greatest grid value, the
\* range and value type of the tpe distribution) and the categories.
C16_Original ==
    (/\ Constructed
     /\ translation.algorithm # "none"
     /\ \A i \in DOMAIN decl : OneSource(i))
    => /\ translation.ok
       /\ \A i \in DOMAIN dimensions : Preserved(dimensions[i])

(***************************************************************************)
(* Attribute lookup on a HyperOpt object, __getattr__, lines 423-431.      *)
(***************************************************************************)

\* The depth of nested calls at which Python raises RecursionError
\* (sys.getrecursionlimit(), 1000 by default).
RecursionLimit == 3

\* The attributes looked up: fit, the Trials object that fmin sets, the wrapped
\* search object, an attribute of sklearn's search objects, and a name that
\* nothing defines.
Items == {"fit", "trials", "optfn", "best_params_", "no_such"}

\* __init__ has set self.optfn, lines 348-355.
OptfnSet == fit \in {"RandomizedSearchCV", "GridSearchCV", "BayesSearchCV"}

\* The instance, or its class, has the attribute: self.fit is set by lines
\* 357-366, self.trials by line 755.
InstanceHas(item) ==
    \/ item = "fit" /\ fit \in {"own_fit", "grid_search", "random_search", "fmin"}
    \/ item = "trials" /\ fit = "fmin" /\ artifacts.trials_json
    \/ item = "optfn" /\ OptfnSet

\* hasattr(self.optfn, item) for a search object of sklearn or skopt.
OptfnHas(item) == item \in {"fit", "best_params_"}

\* A HyperOpt object exists and is not inside fit().
AtRest == fit # "unset" /\ pc \in {"configured", "done", "raised"}

\* obj.item is evaluated: the normal lookup finds the attribute, or
\* __getattr__(item) is entered.
GetAttr ==
    /\ AtRest
    /\ lookup = NoLookup
    /\ \E item \in Items :
         lookup' = IF InstanceHas(item)
                   THEN [item |-> item, depth |-> 0, outcome |-> "value"]
                   ELSE [item |-> item, depth |-> 1, outcome |-> ""]
    /\ UNCHANGED <<bvars, hvars, lvars, dvars, imputer, imputed, plotted>>

\* line 428 in the innermost __getattr__: self.optfn is evaluated first.  When
\* optfn is set, hasattr decides between lines 429 and 431; when it is not,
\* the evaluation of self.optfn enters __getattr__('optfn'), one call deeper,
\* and at the recursion limit Python raises RecursionError, which no hasattr
\* in the chain absorbs.
GetattrBody ==
    /\ lookup.depth >= 1
    /\ lookup.outcome = ""
    /\ lookup' =
         IF OptfnSet
         THEN [lookup EXCEPT !.outcome = IF OptfnHas(lookup.item) THEN "value"
                                         ELSE "AttributeError"]
         ELSE IF lookup.depth < RecursionLimit
         THEN [lookup EXCEPT !.depth = lookup.depth + 1]
         ELSE [lookup EXCEPT !.outcome = "RecursionError"]
    /\ UNCHANGED <<bvars, hvars, lvars, dvars, imputer, imputed, plotted>>

\* The caller has the value or the exception.
LookupOver ==
    /\ lookup.outcome # ""
    /\ lookup' = NoLookup
    /\ UNCHANGED <<bvars, hvars, lvars, dvars, imputer, imputed, plotted>>

\* The object is used as in SpecHyperOpt while no lookup is under way.
Use == lookup = NoLookup /\ NextHyperOpt

\* The objects looked at: one dimension, named "a".
InitGetattr ==
    /\ InitHyperOpt
    /\ Len(call.param_space) = 1
    /\ call.param_space[1].name = "a"

NextGetattr == Use \/ GetAttr \/ GetattrBody \/ LookupOver

SpecGetattr == InitGetattr /\ [][NextGetattr]_vars

\* C29 as stated: the lookup of an attribute that neither the HyperOpt object
\* nor a wrapped search object defines ends with AttributeError, for every
\* algorithm and objective, before and after fit, with or without optfn.
C29_Original ==
    (/\ lookup.outcome # ""
     /\ ~InstanceHas(lookup.item)
     /\ ~(OptfnSet /\ OptfnHas(lookup.item)))
    => lookup.outcome = "AttributeError"

(***************************************************************************)
(* Imputation, src/ai4water/preprocessing/imputation.py.                   *)
(***************************************************************************)

\* The largest number of calls of one Imputation object.
MaxCalls == 3

\* The classes of the data supplied.
Containers == {"DataFrame", "ndarray", "list"}

\* The values of the method attribute: the two methods of pandas, a key of
\* ai4water.backend.imputations, and a name that is neither.
Methods == {"fillna", "interpolate", "KNNImputer", "no_method"}

\* Keyword arguments, by what they hold: nothing, {'value': 0},
\* {'method': 'cubic'}, {'n_neighbors': 3}.
Kwargs == {"", "value", "cubic", "n_neighbors"}

\* What the method does with the keyword arguments: fillna needs a value or a
\* method of filling, interpolate and KNNImputer have defaults, and a keyword
\* of another method is rejected; whether interpolate passes an unknown
\* keyword on or rejects it depends on the interpolation it selects.
Accepted(method, kwargs) ==
    IF method = "fillna" THEN {kwargs = "value"}
    ELSE IF method = "interpolate"
    THEN (IF kwargs = "n_neighbors" THEN BOOLEAN ELSE {kwargs \in {"", "cubic"}})
    ELSE {kwargs \in {"", "n_neighbors"}}

\* Imputation(data, method=..., imputer_args=...), lines 81-103 and 203-216:
\* _dtype is the class name of the data, self.data a DataFrame made of it.
NewImputation(dtype, method, imputer_args) ==
    [dtype |-> dtype, data |-> "DataFrame", method |-> method, imputer_args |-> imputer_args]

InitImputation ==
    /\ args = DocExample
    /\ ret = Pending
    /\ HyperOptIdle
    /\ DimensionsIdle
    /\ lookup = NoLookup
    /\ plotted = NoPlot
    /\ imputer \in { NewImputation(t, m, a) : t \in Containers, m \in Methods, a \in Kwargs }
    /\ imputed = NoCall

\* imputer.method = x, lines 109-111.
SetMethod ==
    /\ imputed.nth < MaxCalls
    /\ \E x \in Methods \ {imputer.method} : imputer' = [imputer EXCEPT !.method = x]
    /\ UNCHANGED <<bvars, hvars, lvars, dvars, lookup, imputed, plotted>>

\* What lines 148-151 make of self.data after a call.
DataAfterCall ==
    IF imputer.dtype \in {"list", "ndarray"} THEN imputer.dtype ELSE imputer.data

\* imputer(**kwargs), lines 116-153.
Call ==
    /\ imputed.nth < MaxCalls
    /\ \E given \in Kwargs :
         LET kwargs == IF given # "" THEN given ELSE imputer.imputer_args
             done(status, data) ==
                 /\ imputed' = [status |-> status, kind |-> data, method |-> imputer.method,
                                kwargs |-> kwargs, nth |-> imputed.nth + 1]
                 /\ imputer' = [imputer EXCEPT !.data = data]
             raised(e) ==
                 /\ imputed' = [status |-> e, kind |-> "", method |-> imputer.method,
                                kwargs |-> kwargs, nth |-> imputed.nth + 1]
                 /\ UNCHANGED imputer
         IN  IF imputer.method \in {"fillna", "interpolate"}
             THEN \* line 127: self.data.columns
                  IF imputer.data # "DataFrame" THEN raised("AttributeError")
                  ELSE \E ok \in Accepted(imputer.method, kwargs) :
                         IF ok THEN done("returned", DataAfterCall) ELSE raised("TypeError")
             ELSE IF imputer.method = "KNNImputer"
             THEN \E ok \in Accepted(imputer.method, kwargs) :
                    IF ~ok THEN raised("TypeError")
                    \* line 135: self.data[self.features] with the column names
                    ELSE IF imputer.data = "list" THEN raised("TypeError")
                    ELSE IF imputer.data = "ndarray" THEN raised("IndexError")
                    ELSE done("returned", DataAfterCall)
             ELSE raised("NotImplementedError")
    /\ UNCHANGED <<bvars, hvars, lvars, dvars, lookup, plotted>>

NextImputation == SetMethod \/ Call

SpecImputation == InitImputation /\ [][NextImputation]_vars

\* C26 as stated: every call of an Imputation object, the first and the later
\* ones, with the method changed or keyword arguments passed in between,
\* succeeds when the method exists and takes the arguments of the call; it
\* applies that method with those arguments and returns the data in the
\* container supplied: DataFrame, ndarray or list.
C26_Original ==
    (/\ imputed.nth >= 1
     /\ imputed.method # "no_method"
     /\ Accepted(imputed.method, imputed.kwargs) = {TRUE})
    => /\ imputed.status = "returned"
       /\ imputed.kind = imputer.dtype

(***************************************************************************)
(* plot_metrics_between, src/AI4Water/utils/SeqMetrics/utils.py.           *)
(***************************************************************************)

\* The most metrics that lie inside the range, and the largest
\* max_metrics_per_fig.
MaxMetrics == 8
MaxPerFig == 4

\* The second of the default ranges of plot_metrics, line 17.
lower == 1
upper == 10

\* The errors given: n metrics with the values lower + 1, lower + 2, ..., and,
\* when extras is set, before them a metric that is None, one equal to lower
\* and one equal to upper.
Errors(n, extras) ==
    (IF extras THEN <<None, lower, upper>> ELSE <<>>) \o [i \in 1..n |-> lower + i]

RECURSIVE Between(_)
\* lines 90-94: the metrics that are not None and lie strictly between lower
\* and upper, in their order.
Between(errors) ==
    IF errors = <<>> THEN <<>>
    ELSE LET v    == errors[Len(errors)]
             rest == Between(SubSeq(errors, 1, Len(errors) - 1))
         IN  IF v # None /\ lower < v /\ v < upper THEN Append(rest, v) ELSE rest

\* np.array(np.linspace(0, n, num), dtype=np.int32), lines 97-98: num evenly
\* spaced points from 0 to n, each cut to its whole part; the one point 0 when
\* num is 1.
linspace_int32(n, num) ==
    IF num = 1 THEN <<0>> ELSE [k \in 1..num |-> ((k - 1) * n) \div (num - 1)]

\* take(st, en, d), lines 9-13: the items st..en-1 of d.
take(st, en, d) == SubSeq(d, st + 1, Min(en, Len(d)))

\* plot_metrics_between(errors, lower, upper, max_metrics_per_fig=...), up to
\* the loop of line 97.
PlotMetricsBetween(errors, max_metrics_per_fig) ==
    LET zero_to_one == Between(errors)
        n == Len(zero_to_one)
    IN  [errors |-> errors, max_metrics_per_fig |-> max_metrics_per_fig,
         zero_to_one |-> zero_to_one,
         points |-> linspace_int32(n, (n \div max_metrics_per_fig) + 1),
         pos |-> 0, st |-> 0, figures |-> <<>>]

InitMetrics ==
    /\ args = DocExample
    /\ ret = Pending
    /\ HyperOptIdle
    /\ DimensionsIdle
    /\ lookup = NoLookup
    /\ imputer = NoImputer
    /\ imputed = NoCall
    /\ plotted \in { PlotMetricsBetween(Errors(n, extras), m) :
                        n \in 0..MaxMetrics, extras \in BOOLEAN, m \in 1..MaxPerFig }

\* One pass of the loop, lines 97-108: the point 0 is passed over, every other
\* point i ends a chunk that is drawn as one figure.
PlotChunk ==
    /\ plotted.pos < Len(plotted.points)
    /\ LET i == plotted.points[plotted.pos + 1]
       IN  plotted' =
             IF i = 0 THEN [plotted EXCEPT !.pos = plotted.pos + 1]
             ELSE [plotted EXCEPT !.pos = plotted.pos + 1,
                                  !.figures = Append(plotted.figures,
                                                     take(plotted.st, i, plotted.zero_to_one)),
                                  !.st = i]
    /\ UNCHANGED <<bvars, hvars, lvars, dvars, lookup, imputer, imputed>>

NextMetrics == PlotChunk

SpecMetrics == InitMetrics /\ [][NextMetrics]_vars

\* C27 as stated: no figure shows more than max_metrics_per_fig metrics, for
\* every number of metrics inside the range and every max_metrics_per_fig >= 1.
C27_Original ==
    \A f \in DOMAIN plotted.figures :
        Len(plotted.figures[f]) <= plotted.max_metrics_per_fig

====
